---- MODULE Spec2Model ----
(***************************************************************************)
(* Model of the time-stepping controller and the solvers of                *)
(* LSDRasterModel (src/LSDRasterModel.cpp).                                *)
(*                                                                         *)
(* Conventions.                                                            *)
(*  - Elevations, times and rates are floats in the source; they are       *)
(*    integers here (a fixed-point reading of the same arithmetic).        *)
(*  - Array2D<float> is a reference-counted handle: operator= shares the   *)
(*    buffer, copy() allocates a new one.  heap maps buffer ids to grids,  *)
(*    RasterData and steady_state_data are buffer ids.                     *)
(*  - The sparse solves (itl::bicgstab) and the flow router (LSDFlowInfo)  *)
(*    are collaborators: their results are drawn from the values their     *)
(*    contracts allow.                                                     *)
(***************************************************************************)
EXTENDS Integers, Sequences, FiniteSets, TLC

\* ------------------------------------------------------------------ bounds
MaxElev == 1          \* elevations range over 0..MaxElev
MaxTime == 10         \* model time at which a run is cut off
MaxCycleTime == 20    \* the same, for runs with the short forcing period
MaxCalls == 2         \* number of API calls in one behaviour
MaxErosion == 2       \* size of the erosion sums followed
MaxCuts == 2          \* time-step reductions followed in one DAVE call
MaxRoot == 2          \* root depths range over 0..MaxRoot
MaxIsoSteps == 3      \* isostasy steps followed in one behaviour
IsoScale == 5         \* the isostasy steps start from elevations 0, IsoScale, ...

\* ------------------------------------------------------- program constants
NoDataValue == -99
max_iterations == 10
rho_c == 2650         \* density of the crust, Airy_isostasy
rho_m == 3300         \* density of the mantle, Airy_isostasy

VARIABLES
  \* grid state
  NRows, NCols, boundary_conditions,
  heap, RasterData, steady_state_data, zeta_old, root_depth,
  \* configuration
  timeStep, endTime, endTime_mode, num_runs, K_mode, D_mode, periodicity,
  cycle_steady_check, steady_state_tolerance, steady_state_limit,
  hillslope, nonlinear, fluvial, isostasy, flexure, threshold_drainage,
  n, m, K_fluv, max_uplift, DataResolution,
  \* K_soil, 1 / (S_c * S_c) in thousandths, quiet
  K_soil, inv_S_c_squared, quiet,
  \* clock and statistics
  current_time, time_delay, switch_delay, cycle_number, total_erosion,
  erosion, steady_state, initial_steady_state, recording,
  erosion_cycle_record, phase_pos, mean_eros, n_cyc,
  \* the adaptive-timestep solver: zeta_last_iter, zeta_last_timestep,
  \* zeta_this_iter and the locals of DAVE_nonlinear_creep_timestep
  dave,
  \* the locals of soil_diffusion_fv_nonlinear: last_iteration, max_diff, the
  \* int iter of the function and the itl::basic_iteration iter of the loop body
  loop,
  \* the locals of the hillslope solvers: dimension, periodic and size from
  \* interpret_boundary, whether it printed its warning, matrix, data_vector
  sys,
  \* the locals of fluvial_incision: zeta, nodeList, the loop index i and the
  \* receiver map of flow
  fluv,
  \* soil_diffusion_fv and nonlinear_creep_timestep: the static
  \* iteration_tolerance of the first, and zeta, zeta_intermediate, residual,
  \* iteration and the by-value iteration_tolerance of the second
  creep,
  \* control
  pc, api, run, calls, swap,
  \* history of the current run_components call / last operation
  h

gridVars  == <<NRows, NCols, boundary_conditions>>
dataVars  == <<heap, RasterData, steady_state_data, zeta_old>>
cfgRest   == <<timeStep, num_runs, D_mode, periodicity,
               steady_state_tolerance, steady_state_limit,
               hillslope, nonlinear, fluvial, isostasy, flexure,
               threshold_drainage, n, m, K_fluv, max_uplift, DataResolution,
               K_soil, inv_S_c_squared, quiet>>
cfgVars   == <<cfgRest, K_mode>>
clockVars == <<current_time, time_delay, switch_delay, cycle_number,
               total_erosion, erosion, steady_state, initial_steady_state,
               recording, erosion_cycle_record, phase_pos, mean_eros, n_cyc>>
vars == <<gridVars, fluv, creep, dataVars, root_depth, cfgVars, endTime, endTime_mode,
          cycle_steady_check, clockVars, dave, loop, sys, pc, api, run, calls, swap,
          h>>

\* ------------------------------------------------------------- arithmetic
Abs(x) == IF x < 0 THEN -x ELSE x

Max(a, b) == IF a >= b THEN a ELSE b

\* a / b rounded to the nearest integer, b > 0 (a float quotient read at the
\* resolution of the elevations)
RoundDiv(a, b) == (2 * a + b) \div (2 * b)

\* C++ conversion of a float quotient to int: truncation toward zero
TruncDiv(a, b) == IF a >= 0 THEN a \div b ELSE -((-a) \div b)

\* ceil(a / b) for b > 0
CeilDiv(a, b) == -((-a) \div b)

\* ------------------------------------------------------------------ grids
Elev == 0..MaxElev
Cells == (0..(NRows-1)) \X (0..(NCols-1))
Grids == [Cells -> Elev]

\* bool LSDRasterModel::is_base_level( int i, int j )
is_base_level(i, j) ==
  IF i = 0 /\ boundary_conditions[0] = "b" THEN TRUE
  ELSE IF j = 0 /\ boundary_conditions[3] = "b" THEN TRUE
  ELSE IF i = NRows-1 /\ boundary_conditions[2] = "b" THEN TRUE
  ELSE IF j = NCols-1 /\ boundary_conditions[1] = "b" THEN TRUE
  ELSE FALSE

\* the elevation field the model currently works on
Zeta == heap[RasterData]


\* ------------------------------------------------------------------- heap
\* Array2D<float> handles: two buffers suffice, one for RasterData and one
\* for a steady_state_data that does not share with it.
Buf == {1, 2}
Free == <<>>
NoArray == 0

OtherBuf(b) == IF b = 1 THEN 2 ELSE 1

\* RasterData[i][j] = ...  : a write through the handle, seen by every
\* handle that shares the buffer (repack_vector, uplift_surface, wash_out)
WriteInPlace(hp, g) == [hp EXCEPT ![RasterData] = g]

\* RasterData = <a new array holding g>  (fluvial_incision: RasterData = zeta)
\* the old buffer is released unless steady_state_data still refers to it
RebindTarget == IF steady_state_data = RasterData THEN OtherBuf(RasterData) ELSE RasterData

\* ---------------------------------------------------------------- uplift
\* float LSDRasterModel::get_uplift_at_cell(int i, int j), uplift_mode 0 (block)
get_uplift_at_cell(i, j) ==
  IF is_base_level(i, j) THEN 0 ELSE max_uplift * timeStep

\* void LSDRasterModel::uplift_surface( void )
uplift_surface(z) ==
  [c \in Cells |->
     IF is_base_level(c[1], c[2]) THEN z[c]
     ELSE IF z[c] # NoDataValue THEN z[c] + get_uplift_at_cell(c[1], c[2])
     ELSE z[c]]

\* -------------------------------------------------------------- isostasy
Roots == 0..MaxRoot

\* void LSDRasterModel::Airy_isostasy( void ): the fields RasterData and
\* root_depth after the call.  load / (1 + zeta_root) with
\* zeta_root = (rho_m - rho_c) / rho_c is load * rho_c / rho_m.
Airy_root(load) == RoundDiv(load * rho_c, rho_m)

\* variant: the root grows by the share of the elevation alone
Airy_isostasy_ofElevation(z, root) ==
  [zeta |-> [c \in Cells |-> z[c] - Airy_root(z[c])],
   root |-> [c \in Cells |-> root[c] + Airy_root(z[c])]]

Airy_isostasy(z, root) ==
  [zeta |-> [c \in Cells |-> (z[c] + root[c]) - Airy_root(z[c] + root[c])],
   root |-> [c \in Cells |-> Airy_root(z[c] + root[c])]]

\* Array2D<float> LSDRasterModel::calculate_root( void ): the flexural
\* response comes from the Fourier transforms of the load (detrend2D,
\* dfftw2D_fwd, dfftw2D_inv), any root depth per cell; the last loop writes 0
\* on the edges coded 'b'
calculate_root ==
  {g \in [Cells -> Roots] :
     \A c \in Cells :
       (\/ (c[1] = 0 /\ boundary_conditions[0] = "b")
        \/ (c[2] = 0 /\ boundary_conditions[3] = "b")
        \/ (c[1] = NRows-1 /\ boundary_conditions[2] = "b")
        \/ (c[2] = NCols-1 /\ boundary_conditions[1] = "b")) => g[c] = 0}

\* void LSDRasterModel::flexural_isostasy_alt( void ) for the root new_root
\* that calculate_root returned
flexural_isostasy_alt(z, old_root, new_root) ==
  LET difference == [c \in Cells |-> new_root[c] - old_root[c]]
  IN [zeta |-> [c \in Cells |-> z[c] - difference[c]],
      root |-> [c \in Cells |-> old_root[c] + difference[c]]]

\* lines 1501-1508: the isostasy branch of run_components
isostasy_step(z, root) ==
  IF flexure
  THEN {flexural_isostasy_alt(z, root, g) : g \in calculate_root}
  ELSE {Airy_isostasy(z, root)}

\* ------------------------------------------------------ boundary handling
\* void LSDRasterModel::interpret_boundary: the axis of the unknowns.
\* dimension = i % 2 for the last edge i coded 'b', 0 when there is none
RECURSIVE LastBase(_)
LastBase(i) ==
  IF i < 0 THEN 0
  ELSE IF boundary_conditions[i] = "b" THEN i % 2
  ELSE LastBase(i - 1)

interpret_boundary_dimension == LastBase(3)

\* the cells repack_vector writes: rows 1..NRows-2 when dimension = 0,
\* columns 1..NCols-2 when dimension = 1
Unknowns(dimension) ==
  IF dimension = 0
  THEN {c \in Cells : c[1] >= 1 /\ c[1] <= NRows-2}
  ELSE {c \in Cells : c[2] >= 1 /\ c[2] <= NCols-2}

\* void LSDRasterModel::repack_vector(data_vector, dimension)
repack_vector(z, output, dimension) ==
  [c \in Cells |-> IF c \in Unknowns(dimension) THEN output[c] ELSE z[c]]

\* itl::bicgstab(matrix, output, data_vector, P, iter): the solver's answer,
\* one elevation per unknown
SolverOutputs(dimension) == [Unknowns(dimension) -> Elev]

\* soil_diffusion_fd_linear / soil_diffusion_fv_nonlinear: the fields the
\* hillslope step can leave in RasterData
soil_diffusion(z) ==
  {repack_vector(z, out, interpret_boundary_dimension) :
      out \in SolverOutputs(interpret_boundary_dimension)}

\* ------------------------------------------------------------ flow network
\* LSDFlowInfo flow(boundary_conditions, temp): for the elevation field z, one
\* steepest-descent receiver per cell (itself for a base-level cell or a cell
\* with no lower neighbour), the flow length code of the link and the number
\* of contributing pixels.
Neighbours(c) ==
  {d \in Cells : d # c /\ Abs(d[1] - c[1]) <= 1 /\ Abs(d[2] - c[2]) <= 1}

IsDiagonal(c, d) == d[1] # c[1] /\ d[2] # c[2]

\* drop over distance, times 1000 * sqrt(2), for comparing links
Steepness(z, c, d) == (z[c] - z[d]) * (IF IsDiagonal(c, d) THEN 1000 ELSE 1414)

Receivers(z, c) ==
  LET lower == {d \in Neighbours(c) : z[d] < z[c]}
  IN IF is_base_level(c[1], c[2]) \/ lower = {} THEN {c}
     ELSE {d \in lower : \A e \in lower : Steepness(z, c, d) >= Steepness(z, c, e)}

RECURSIVE ChoiceFns(_, _)
ChoiceFns(z, S) ==
  IF S = {} THEN {<<>>}
  ELSE LET c == CHOOSE x \in S : TRUE
       IN {f @@ (c :> d) : f \in ChoiceFns(z, S \ {c}), d \in Receivers(z, c)}

\* the receiver maps the flow router can return for z
FlowNets(z) == ChoiceFns(z, Cells)

\* flow.retrieve_flow_length_code_of_node(node)
flow_length_code(r, c) ==
  IF r[c] = c THEN 0 ELSE IF IsDiagonal(c, r[c]) THEN 2 ELSE 1

RECURSIVE Reaches(_, _, _, _)
Reaches(r, d, c, k) ==
  IF d = c THEN TRUE
  ELSE IF k = 0 \/ r[d] = d THEN FALSE
  ELSE Reaches(r, r[d], c, k - 1)

\* flow.retrieve_contributing_pixels_of_node(node)
contributing_pixels(r, c) ==
  Cardinality({d \in Cells : Reaches(r, d, c, NRows * NCols)})

\* ------------------------------------------------------- fluvial incision
\* dx of the link in thousandths: DataResolution, or DataResolution * root_2
LinkLength(r, c) ==
  IF flow_length_code(r, c) = 2 THEN 1414 * DataResolution ELSE 1000 * DataResolution

\* pow(drainageArea, m), m a natural number
AreaPow(r, c) ==
  IF m = 0 THEN 1 ELSE contributing_pixels(r, c) * DataResolution * DataResolution

\* variant: the stream power factor without the erodibility
LinearIncision_withoutK(r, c, own, recv) ==
  LET num == AreaPow(r, c) * timeStep * 1000
      den == LinkLength(r, c)
  IN (own * den + recv * num) \div (den + num)

\* n = 1: zeta = (zeta + zeta_receiver * F) / (1 + F), F = K A^m dt / dx
LinearIncision(r, c, own, recv) ==
  LET num == K_fluv * AreaPow(r, c) * timeStep * 1000
      den == LinkLength(r, c)
  IN (own * den + recv * num) \div (den + num)

\* the n = 1 pass in stack order: a receiver is updated before its donors
RECURSIVE LinearPass(_, _, _, _)
LinearPass(z, r, c, k) ==
  IF flow_length_code(r, c) = 0 \/ k = 0 THEN z[c]
  ELSE LinearIncision(r, c, z[c], LinearPass(z, r, r[c], k - 1))

\* pow(x, k) for a natural k, x and the result in thousandths
RECURSIVE PowMilli(_, _)
PowMilli(x, k) == IF k = 0 THEN 1000 ELSE TruncDiv(x * PowMilli(x, k - 1), 1000)

\* n # 1: the per-cell Newton-Raphson loop, in thousandths of an elevation
\* unit (its tolerance 0.001 is one thousandth).  new_zeta after the loop.
RECURSIVE NewtonLoop(_, _, _, _, _, _)
NewtonLoop(new_zeta, old_zeta, recv, F, dx, k) ==
  LET slope   == TruncDiv((new_zeta - recv) * 1000, dx)
      denom   == 1000 + TruncDiv(F * n * PowMilli(slope, n - 1) * 1000, dx)
      epsilon == TruncDiv((new_zeta - old_zeta + F * PowMilli(slope, n)) * 1000, denom)
  IN IF epsilon > 1 /\ k > 0
     THEN NewtonLoop(new_zeta - epsilon, old_zeta, recv, F, dx, k - 1)
     ELSE new_zeta - epsilon

NewtonIters == 50      \* iterations of one Newton loop followed

\* new_zeta of cell c at the end of its Newton loop, in thousandths
new_zeta_of(z, r, c) ==
  NewtonLoop(z[c] * 1000, z[c] * 1000, z[r[c]] * 1000,
             K_fluv * AreaPow(r, c) * timeStep, LinkLength(r, c), NewtonIters)

\* void LSDRasterModel::fluvial_incision( void ): the array zeta that is
\* assigned to RasterData at the end, for the flow network r
fluvial_incision(z, r) ==
  IF n = 1
  THEN [c \in Cells |-> LinearPass(z, r, c, NRows * NCols)]
  ELSE z

\* ------------------------------------------------------ controller checks
\* the test of check_steady_state; NaN compares false
NaN == 0 - 1000000
Unset == 0 - 99

CycleSteady ==
  \A i \in 1..4 :
    ~ ( erosion_cycle_record[i] = Unset
        \/ ( erosion_cycle_record[i] # NaN /\ erosion_cycle_record[i+1] # NaN
             /\ Abs(erosion_cycle_record[i] - erosion_cycle_record[i+1])
                  > steady_state_tolerance ) )

\* variant: a cell counts as changed unless it moved by less than the tolerance
SurfaceSteady_strict(t) ==
  (steady_state_limit < 0 \/ t < steady_state_limit)
     => \A c \in Cells : Abs(Zeta[c] - zeta_old[c]) < steady_state_tolerance

SurfaceSteady(t) ==
  (steady_state_limit < 0 \/ t < steady_state_limit)
     => \A c \in Cells : Abs(Zeta[c] - zeta_old[c]) <= steady_state_tolerance

\* steady_state as check_steady_state sets it at time t
check_steady_state(t) ==
  IF cycle_steady_check THEN CycleSteady ELSE SurfaceSteady(t)

\* bool LSDRasterModel::check_if_hung( void )
check_if_hung == FALSE

\* num_cycles of check_end_condition
num_cycles ==
  IF K_mode # 0 \/ D_mode # 0 THEN cycle_number - 1
  ELSE TruncDiv(current_time - time_delay, periodicity)

\* endTime_adjusted of check_end_condition, case 3
endTime_adjusted ==
  LET k == CeilDiv(endTime - time_delay, periodicity)
  IN IF k = 1 THEN (1 + k) * periodicity + time_delay
     ELSE k * periodicity + time_delay

\* variant: case 1 stops without waiting for initial steady state
check_end_condition_nowait ==
  CASE endTime_mode = 1 -> current_time > endTime + timeStep
    [] endTime_mode = 2 ->
         ~ (~initial_steady_state \/ num_cycles <= endTime)
    [] endTime_mode = 3 ->
         ~ (~initial_steady_state \/ current_time < endTime_adjusted + timeStep)
    [] OTHER -> current_time >= endTime

\* variant: the default case stops only once current_time has passed endTime
check_end_condition_late ==
  CASE endTime_mode = 1 ->
         ~ (~initial_steady_state \/ current_time <= endTime + timeStep)
    [] endTime_mode = 2 ->
         ~ (~initial_steady_state \/ num_cycles <= endTime)
    [] endTime_mode = 3 ->
         ~ (~initial_steady_state \/ current_time < endTime_adjusted + timeStep)
    [] OTHER -> current_time > endTime

\* bool LSDRasterModel::check_end_condition( void )
check_end_condition ==
  CASE endTime_mode = 1 ->
         ~ (~initial_steady_state \/ current_time <= endTime + timeStep)
    [] endTime_mode = 2 ->
         ~ (~initial_steady_state \/ num_cycles <= endTime)
    [] endTime_mode = 3 ->
         ~ (~initial_steady_state \/ current_time < endTime_adjusted + timeStep)
    [] OTHER -> current_time >= endTime

\* periodic_parameter(1, 1) > 1 at time t (period_mode 1): the sine is
\* positive in the open first half of the period
periodic_parameter_high(t) ==
  LET x == (t - time_delay - switch_delay) % periodicity
  IN 0 < 2 * x /\ 2 * x < periodicity

\* --------------------------------------------------------------- reporting
\* get_erosion_at_cell summed over the cells that are not base level, then
\* erosion /= n  (write_report)
NonBase == {c \in Cells : ~is_base_level(c[1], c[2])}

RECURSIVE SumOver(_, _)
SumOver(f, S) ==
  IF S = {} THEN 0
  ELSE LET c == CHOOSE x \in S : TRUE IN f[c] + SumOver(f, S \ {c})

mean_erosion ==
  LET e == [c \in Cells |->
              zeta_old[c] - Zeta[c] + get_uplift_at_cell(c[1], c[2])]
  IN IF NonBase = {} THEN NaN
     ELSE TruncDiv(SumOver(e, NonBase), Cardinality(NonBase) * timeStep)

\* void LSDRasterModel::check_recording( void )
check_recording ==
  IF recording THEN TRUE
  ELSE IF ~initial_steady_state THEN FALSE
  ELSE IF K_mode = 0 /\ D_mode = 0 THEN TRUE
  ELSE TruncDiv(current_time - time_delay, periodicity) >= 1

\* mean_eros / n of cycle_report
CycleMean(sum, cnt) == IF cnt = 0 \/ sum = NaN THEN NaN ELSE TruncDiv(sum, cnt)

AddNaN(a, b) == IF a = NaN \/ b = NaN THEN NaN ELSE a + b

\* void LSDRasterModel::cycle_report(...): the cycle counter, the rolling
\* record of per-cycle mean erosion and the function's static accumulators
cycle_report(eros) ==
  LET sum0 == IF current_time = 0 THEN 0 ELSE mean_eros
      cnt0 == IF current_time = 0 THEN 0 ELSE n_cyc
      rec0 == IF cycle_steady_check /\ erosion_cycle_record = <<>>
              THEN [i \in 1..5 |-> Unset] ELSE erosion_cycle_record
      high == periodic_parameter_high(current_time + timeStep)
      roll == high /\ phase_pos = 0
  IN /\ phase_pos' = IF high THEN 1 ELSE 0
     /\ cycle_number' = IF roll THEN cycle_number + 1 ELSE cycle_number
     /\ erosion_cycle_record' =
          IF roll /\ cycle_steady_check
          THEN [i \in 1..5 |-> IF i < 5 THEN rec0[i + 1] ELSE CycleMean(sum0, cnt0)]
          ELSE rec0
     /\ mean_eros' = IF roll THEN eros ELSE AddNaN(sum0, eros)
     /\ n_cyc' = IF roll THEN 1 ELSE cnt0 + 1

\* ------------------------------------------------------------ run_components
Processes_upliftBeforeIsostasy ==
  <<"hillslope", "wash_out", "fluvial", "uplift", "isostasy", "write_report">>

\* lines 1490-1511: the calls in the body of the do loop, in program order
Processes ==
  <<"hillslope", "wash_out", "fluvial", "isostasy", "uplift", "write_report">>

\* the statement that follows the call of p: the next call, or line 1513
After(p) ==
  LET i == CHOOSE k \in 1..Len(Processes) : Processes[k] = p
  IN IF i = Len(Processes) THEN "advance" ELSE Processes[i + 1]

\* h.order lists what the current iteration has done so far: the snapshot,
\* the processes that were switched on, the clock and the two checks
Did(what, on) == [h EXCEPT !.order = IF on THEN Append(@, what) ELSE @]

\* lines 1469-1474: the counters run_components resets on entry
RunComponentsEntry ==
  /\ cycle_number' = 1
  /\ total_erosion' = 0
  /\ switch_delay' = 0
  /\ time_delay' = 0
  /\ pc' = "check_if_hung"
  /\ h' = [h EXCEPT !.endTime0 = endTime', !.t0 = current_time', !.steps = 0,
                    !.marks = 0,
                    !.iss0 = initial_steady_state', !.order = <<>>,
                    !.prev = <<>>]

\* line 1480: if ( check_if_hung() ) break;
rc_check_if_hung ==
  /\ pc = "check_if_hung"
  /\ pc' = IF check_if_hung THEN "return" ELSE "snapshot"
  /\ UNCHANGED <<gridVars, fluv, creep, dave, loop, sys, root_depth, dataVars, cfgVars, endTime, endTime_mode,
                 cycle_steady_check, clockVars, api, run, calls, swap, h>>

\* lines 1485-1487: check_periodicity_switch() returns at once (period_mode
\* is 1); zeta_old = RasterData.copy()
rc_snapshot ==
  /\ pc = "snapshot"
  /\ zeta_old' = Zeta
  /\ pc' = Processes[1]
  /\ h' = [h EXCEPT !.order = <<"zeta_old">>, !.prev = h.order]
  /\ UNCHANGED <<gridVars, fluv, creep, dave, loop, sys, root_depth, heap, RasterData, steady_state_data,
                 cfgVars, endTime, endTime_mode, cycle_steady_check, clockVars,
                 api, run, calls, swap>>

\* lines 1490-1496
rc_hillslope ==
  /\ pc = "hillslope"
  /\ IF hillslope
     THEN \E g \in soil_diffusion(Zeta) : heap' = WriteInPlace(heap, g)
     ELSE heap' = heap
  /\ pc' = After("hillslope")
  /\ h' = Did("hillslope", hillslope)
  /\ UNCHANGED <<gridVars, fluv, creep, dave, loop, sys, root_depth, RasterData, steady_state_data,
                 zeta_old, cfgVars, endTime, endTime_mode, cycle_steady_check,
                 clockVars, api, run, calls, swap>>

\* variant: a cell is washed out from the threshold on
wash_out_fromThreshold(z, r) ==
  [c \in Cells |->
     IF contributing_pixels(r, c) * DataResolution * DataResolution >= threshold_drainage
     THEN zeta_old[c] ELSE z[c]]

\* void LSDRasterModel::wash_out( void )
wash_out(z, r) ==
  [c \in Cells |->
     IF contributing_pixels(r, c) * DataResolution * DataResolution > threshold_drainage
     THEN zeta_old[c] ELSE z[c]]

\* line 1498
rc_wash_out ==
  /\ pc = "wash_out"
  /\ IF threshold_drainage < 0 \/ ~hillslope \/ ~fluvial
     THEN heap' = heap
     ELSE \E r \in FlowNets(zeta_old) : heap' = WriteInPlace(heap, wash_out(Zeta, r))
  /\ pc' = After("wash_out")
  /\ h' = Did("wash_out", ~(threshold_drainage < 0 \/ ~hillslope \/ ~fluvial))
  /\ UNCHANGED <<gridVars, fluv, creep, dave, loop, sys, root_depth, RasterData, steady_state_data,
                 zeta_old, cfgVars, endTime, endTime_mode, cycle_steady_check,
                 clockVars, api, run, calls, swap>>

\* lines 1499-1500; fluvial_incision ends with this->RasterData = zeta
rc_fluvial ==
  /\ pc = "fluvial"
  /\ IF fluvial
     THEN \E r \in FlowNets(Zeta) :
            /\ RasterData' = RebindTarget
            /\ heap' = [heap EXCEPT ![RebindTarget] = fluvial_incision(Zeta, r)]
     ELSE UNCHANGED <<heap, RasterData>>
  /\ pc' = After("fluvial")
  /\ h' = Did("fluvial", fluvial)
  /\ UNCHANGED <<gridVars, fluv, creep, dave, loop, sys, root_depth, steady_state_data, zeta_old, cfgVars,
                 endTime, endTime_mode, cycle_steady_check, clockVars, api, run,
                 calls, swap>>

\* lines 1501-1508: if (isostasy) { if (flexure) flexural_isostasy_alt();
\* else Airy_isostasy(); }
rc_isostasy ==
  /\ pc = "isostasy"
  /\ IF isostasy
     THEN \E out \in isostasy_step(Zeta, root_depth) :
            /\ \A c \in Cells : out.zeta[c] \in Elev /\ out.root[c] \in Roots
            /\ heap' = WriteInPlace(heap, out.zeta)
            /\ root_depth' = out.root
     ELSE UNCHANGED <<heap, root_depth>>
  /\ pc' = After("isostasy")
  /\ h' = Did("isostasy", isostasy)
  /\ UNCHANGED <<gridVars, fluv, creep, dave, loop, sys, RasterData, steady_state_data, zeta_old, cfgVars,
                 endTime, endTime_mode, cycle_steady_check, clockVars, api, run,
                 calls, swap>>

\* line 1510
rc_uplift ==
  /\ pc = "uplift"
  /\ \A c \in Cells : uplift_surface(Zeta)[c] <= MaxElev
  /\ heap' = WriteInPlace(heap, uplift_surface(Zeta))
  /\ pc' = After("uplift")
  /\ h' = Did("uplift", TRUE)
  /\ UNCHANGED <<gridVars, fluv, creep, dave, loop, sys, root_depth, RasterData, steady_state_data,
                 zeta_old, cfgVars, endTime, endTime_mode, cycle_steady_check,
                 clockVars, api, run, calls, swap>>

\* void LSDRasterModel::write_report( void )
rc_write_report ==
  /\ pc = "write_report"
  /\ recording' = check_recording
  /\ erosion' = mean_erosion
  /\ total_erosion' = IF recording' THEN AddNaN(total_erosion, erosion')
                      ELSE total_erosion
  /\ IF (initial_steady_state \/ cycle_steady_check) /\ (K_mode # 0 \/ D_mode # 0)
     THEN cycle_report(erosion')
     ELSE UNCHANGED <<phase_pos, cycle_number, erosion_cycle_record, mean_eros, n_cyc>>
  /\ total_erosion' = NaN \/ Abs(total_erosion') <= MaxErosion
  /\ mean_eros' = NaN \/ Abs(mean_eros') <= MaxErosion
  /\ pc' = After("write_report")
  /\ h' = Did("write_report", TRUE)
  /\ UNCHANGED <<gridVars, fluv, creep, dave, loop, sys, root_depth, dataVars, cfgVars, endTime, endTime_mode,
                 cycle_steady_check, current_time, time_delay, switch_delay,
                 steady_state, initial_steady_state, api, run, calls, swap>>

\* the model time up to which the current run is followed
TimeLimit == IF periodicity = 4 THEN MaxTime ELSE MaxCycleTime

\* line 1513: current_time += timeStep
rc_advance ==
  /\ pc = "advance"
  /\ current_time + timeStep <= TimeLimit
  /\ current_time' = current_time + timeStep
  /\ pc' = "check_steady_state"
  /\ h' = [h EXCEPT !.steps = @ + 1, !.order = Append(@, "current_time")]
  /\ UNCHANGED <<gridVars, fluv, creep, dave, loop, sys, root_depth, dataVars, cfgVars, endTime, endTime_mode,
                 cycle_steady_check, time_delay, switch_delay, cycle_number,
                 total_erosion, erosion, steady_state, initial_steady_state,
                 recording, erosion_cycle_record, phase_pos, mean_eros, n_cyc,
                 api, run, calls, swap>>

\* variant: the marker is set at every check that passes
first_steady_state_everyPass(passed) == passed

\* lines 442-443: the check has passed and if (not initial_steady_state)
first_steady_state(passed) == passed /\ ~initial_steady_state

\* void LSDRasterModel::check_steady_state( void )
rc_check_steady_state ==
  /\ pc = "check_steady_state"
  /\ steady_state' = check_steady_state(current_time)
  /\ IF first_steady_state(steady_state')
     THEN /\ initial_steady_state' = TRUE
          /\ time_delay' = current_time
          /\ endTime' = IF endTime_mode = 1 \/ endTime_mode = 3
                        THEN endTime + current_time ELSE endTime
     ELSE UNCHANGED <<initial_steady_state, time_delay, endTime>>
  /\ pc' = "check_end_condition"
  /\ h' = [Did("check_steady_state", TRUE) EXCEPT
             !.marks = IF first_steady_state(steady_state') THEN @ + 1 ELSE @]
  /\ UNCHANGED <<gridVars, fluv, creep, dave, loop, sys, root_depth, dataVars, cfgVars, endTime_mode,
                 cycle_steady_check, current_time, switch_delay, cycle_number,
                 total_erosion, erosion, recording, erosion_cycle_record,
                 phase_pos, mean_eros, n_cyc, api, run, calls, swap>>

\* line 1523: while (not check_end_condition()); case 3 stores
\* endTime_adjusted in endTime
rc_check_end_condition ==
  /\ pc = "check_end_condition"
  /\ endTime' = IF endTime_mode = 3 THEN endTime_adjusted ELSE endTime
  /\ pc' = IF check_end_condition THEN "return" ELSE "check_if_hung"
  /\ h' = Did("check_end_condition", TRUE)
  /\ UNCHANGED <<gridVars, fluv, creep, dave, loop, sys, root_depth, dataVars, cfgVars, endTime_mode,
                 cycle_steady_check, clockVars, api, run, calls, swap>>

\* ------------------------------------------------------------- entry points
\* a buffer no handle refers to any more is released
Release(hp, b, keep) == IF b = NoArray \/ b \in keep THEN hp ELSE [hp EXCEPT ![b] = Free]

\* void LSDRasterModel::run_model( void )
call_run_model ==
  /\ pc = "idle" /\ calls < MaxCalls
  /\ api' = "run_model" /\ run' = 1 /\ pc' = "call" /\ calls' = calls + 1
  /\ UNCHANGED <<gridVars, fluv, creep, dave, loop, sys, root_depth, dataVars, cfgVars, endTime, endTime_mode,
                 cycle_steady_check, clockVars, swap, h>>

\* lines 1536-1547: one pass of the do loop up to the first line of the
\* loop of run_components
run_model_run ==
  /\ api = "run_model" /\ pc = "call"
  /\ initial_steady_state' = FALSE
  /\ recording' = FALSE
  /\ current_time' = 0
  /\ endTime' = endTime
  /\ RunComponentsEntry
  /\ UNCHANGED <<gridVars, fluv, creep, dave, loop, sys, root_depth, dataVars, cfgVars, endTime_mode, cycle_steady_check,
                 erosion, steady_state, erosion_cycle_record, phase_pos,
                 mean_eros, n_cyc, api, run, calls, swap>>

\* lines 1548-1551 and 1578-1584: ++run; while (run <= num_runs); final_report()
run_done ==
  /\ api \in {"run_model", "run_model_from_steady_state"} /\ pc = "return"
  /\ run' = run + 1
  /\ IF run + 1 <= num_runs
     THEN pc' = "call" /\ api' = api
     ELSE pc' = "idle" /\ api' = "none"
  /\ UNCHANGED <<gridVars, fluv, creep, dave, loop, sys, root_depth, dataVars, cfgVars, endTime, endTime_mode,
                 cycle_steady_check, clockVars, calls, swap, h>>

\* lines 1558-1573: RasterData = steady_state_data; reset_model()
call_run_model_from_steady_state ==
  /\ pc = "idle" /\ calls < MaxCalls
  /\ steady_state_data # NoArray
  /\ RasterData' = steady_state_data
  /\ heap' = Release(heap, RasterData, {steady_state_data})
  /\ total_erosion' = 0
  /\ api' = "run_model_from_steady_state" /\ run' = 1 /\ pc' = "call"
  /\ calls' = calls + 1
  /\ UNCHANGED <<gridVars, fluv, creep, dave, loop, sys, root_depth, steady_state_data, zeta_old, cfgVars, endTime,
                 endTime_mode, cycle_steady_check, current_time, time_delay,
                 switch_delay, cycle_number, erosion, steady_state,
                 initial_steady_state, recording, erosion_cycle_record,
                 phase_pos, mean_eros, n_cyc, swap, h>>

\* lines 1575-1577: one pass of the do loop
run_model_from_steady_state_run ==
  /\ api = "run_model_from_steady_state" /\ pc = "call"
  /\ current_time' = 0
  /\ endTime' = endTime
  /\ initial_steady_state' = initial_steady_state
  /\ RunComponentsEntry
  /\ UNCHANGED <<gridVars, fluv, creep, dave, loop, sys, root_depth, dataVars, cfgVars, endTime_mode, cycle_steady_check,
                 erosion, steady_state, recording, erosion_cycle_record,
                 phase_pos, mean_eros, n_cyc, api, run, calls, swap>>

\* random_surface_noise(0, noise) and fill(thresh_slope): the cells that
\* are unknowns and not base level may be raised.  The noise is added to
\* RasterData in place; RasterData = temp->get_RasterData() then binds
\* RasterData to the filled array.
NoisyFilled(z) ==
  {g \in Grids :
     \A c \in Cells :
        IF c \in Unknowns(interpret_boundary_dimension) /\ ~is_base_level(c[1], c[2])
        THEN g[c] \in {z[c], z[c] + 1} ELSE g[c] = z[c]}

\* lines 1591-1633: reach_steady_state up to the first line of the loop of
\* its first run_components
call_reach_steady_state ==
  /\ pc = "idle" /\ calls < MaxCalls
  /\ calls' = calls + 1
  /\ initial_steady_state' = FALSE
  /\ current_time' = 0
  /\ swap' = [K_mode |-> K_mode, endTime |-> endTime]
  /\ \E g \in NoisyFilled(Zeta) :
        /\ RasterData' = RebindTarget
        /\ heap' = [heap EXCEPT ![RasterData] = g, ![RebindTarget] = g]
  /\ K_mode' = 1
  /\ endTime' = 0
  /\ cycle_steady_check' = TRUE
  /\ api' = "reach_steady_state_1"
  /\ RunComponentsEntry
  /\ UNCHANGED <<gridVars, fluv, creep, dave, loop, sys, root_depth, steady_state_data, zeta_old, cfgRest, endTime_mode,
                 erosion, steady_state, recording, erosion_cycle_record,
                 phase_pos, mean_eros, n_cyc, run>>

\* lines 1635-1645: between the two run_components calls
reach_steady_state_static ==
  /\ api = "reach_steady_state_1" /\ pc = "return"
  /\ K_mode' = swap.K_mode
  /\ endTime' = timeStep * 10
  /\ cycle_steady_check' = FALSE
  /\ initial_steady_state' = FALSE
  /\ current_time' = 0
  /\ api' = "reach_steady_state_2"
  /\ RunComponentsEntry
  /\ UNCHANGED <<gridVars, fluv, creep, dave, loop, sys, root_depth, dataVars, cfgRest, endTime_mode, erosion,
                 steady_state, recording, erosion_cycle_record, phase_pos,
                 mean_eros, n_cyc, run, calls, swap>>

\* lines 1647-1655: steady_state_data = RasterData
reach_steady_state_done ==
  /\ api = "reach_steady_state_2" /\ pc = "return"
  /\ endTime' = swap.endTime
  /\ cycle_steady_check' = FALSE
  /\ steady_state_data' = RasterData
  /\ heap' = Release(heap, steady_state_data, {RasterData})
  /\ h' = [h EXCEPT !.snap = Zeta]
  /\ api' = "none" /\ pc' = "idle"
  /\ UNCHANGED <<gridVars, fluv, creep, dave, loop, sys, root_depth, RasterData, zeta_old, cfgVars, endTime_mode,
                 clockVars, run, calls, swap>>

\* ------------------------------------------------------------ specification
\* default_parameters() and create(int NRows, int NCols): a 3 x 1 grid with
\* the default boundary codes (north and south fixed, east and west
\* periodic), flat at elevation 0
InitGrid ==
  /\ NRows = 3 /\ NCols = 1
  /\ boundary_conditions = [i \in 0..3 |-> IF i % 2 = 0 THEN "b" ELSE "p"]
  /\ DataResolution = 1
  /\ RasterData = 1
  /\ steady_state_data = NoArray
  /\ heap = [b \in Buf |-> IF b = 1 THEN [c \in Cells |-> 0] ELSE Free]
  /\ zeta_old = Free
  /\ root_depth = [c \in Cells |-> 0]

InitConfig ==
  /\ timeStep \in {1, 2}
  /\ endTime \in {0, 3}
  /\ endTime_mode \in 0..3
  /\ num_runs \in {1, 2}
  /\ K_mode \in {0, 1}
  /\ D_mode = 0
  /\ periodicity = 4
  /\ cycle_steady_check = FALSE
  /\ steady_state_tolerance \in {0, 1}
  /\ steady_state_limit \in {0 - 1, 2}
  /\ hillslope \in BOOLEAN
  /\ nonlinear = FALSE
  /\ fluvial \in BOOLEAN
  /\ isostasy \in BOOLEAN
  /\ flexure \in BOOLEAN
  /\ threshold_drainage = 0 - 99
  /\ n = 1 /\ m = 1 /\ K_fluv = 1
  /\ max_uplift \in {0, 1}
  \* the combinations followed: at least one process enabled; isostasy with
  \* one run of the shorter time step under constant forcing; the longer
  \* time step with one run and constant forcing; two runs with the
  \* default steady_state_limit; the wider tolerance with one run, the
  \* shorter time step, constant forcing and the default steady_state_limit
  /\ hillslope \/ fluvial
  /\ flexure => isostasy
  /\ isostasy => (timeStep = 1 /\ num_runs = 1 /\ K_mode = 0 /\ endTime = 3
                   /\ steady_state_tolerance = 0 /\ steady_state_limit < 0
                   /\ max_uplift = 1)
  /\ timeStep = 2 => (num_runs = 1 /\ K_mode = 0 /\ steady_state_limit < 0)
  /\ num_runs = 2 => steady_state_limit < 0
  /\ steady_state_tolerance = 1 =>
        (timeStep = 1 /\ num_runs = 1 /\ K_mode = 0 /\ steady_state_limit < 0)

InitClock ==
  /\ current_time = 0 /\ time_delay = 0 /\ switch_delay = 0
  /\ cycle_number = 1 /\ total_erosion = 0 /\ erosion = 0
  /\ steady_state = FALSE /\ initial_steady_state = FALSE /\ recording = FALSE
  /\ erosion_cycle_record = <<>> /\ phase_pos = 1 /\ mean_eros = 0 /\ n_cyc = 0

\* the solver's member arrays are empty until DAVE_wrapper is called
DaveIdle ==
  [zeta_last_iter |-> Free, zeta_last_timestep |-> Free, zeta_this_iter |-> Free,
   dt_old |-> 0, max_residual |-> 0, continue_switch |-> FALSE, n_iterations |-> 0]

\* no call of a hillslope solver is under way
SysIdle == [dimension |-> 0, periodic |-> FALSE, size |-> 0, warned |-> FALSE,
            matrix |-> <<>>, data_vector |-> <<>>]

\* static float iteration_tolerance = 0.01 of soil_diffusion_fv, in
\* thousandths
static_iteration_tolerance == 10

\* no call of soil_diffusion_fv is under way
CreepIdle == [static_tolerance |-> static_iteration_tolerance,
              iteration_tolerance |-> 0, zeta |-> <<>>,
              zeta_intermediate |-> <<>>, residual |-> 0, iteration |-> 0]

\* no call of fluvial_incision is under way
FluvIdle == [zeta |-> <<>>, nodeList |-> <<>>, i |-> 0, flow |-> <<>>]

\* no call of soil_diffusion_fv_nonlinear is under way
LoopIdle == [last_iteration |-> Free, max_diff |-> 0, iter |-> 0, solver_iter |-> 0]

Init ==
  /\ InitGrid /\ InitConfig /\ InitClock
  /\ dave = DaveIdle
  /\ loop = LoopIdle
  /\ sys = SysIdle
  /\ fluv = FluvIdle
  /\ creep = CreepIdle
  /\ K_soil = 1 /\ inv_S_c_squared = 0 /\ quiet = FALSE
  /\ pc = "idle" /\ api = "none" /\ run = 1 /\ calls = 0
  /\ swap = [K_mode |-> K_mode, endTime |-> endTime]
  /\ h = [endTime0 |-> endTime, t0 |-> 0, steps |-> 0, iss0 |-> FALSE,
          snap |-> Free, order |-> <<>>, prev |-> <<>>, marks |-> 0]

Next ==
  \/ call_run_model
  \/ run_model_run
  \/ call_run_model_from_steady_state
  \/ run_model_from_steady_state_run
  \/ run_done
  \/ call_reach_steady_state
  \/ reach_steady_state_static
  \/ reach_steady_state_done
  \/ rc_check_if_hung
  \/ rc_snapshot
  \/ rc_hillslope
  \/ rc_wash_out
  \/ rc_fluvial
  \/ rc_isostasy
  \/ rc_uplift
  \/ rc_write_report
  \/ rc_advance
  \/ rc_check_steady_state
  \/ rc_check_end_condition

Spec == Init /\ [][Next]_vars

\* ------------------------------------------------ cyclic steady-state check
\* The same controller on a model with a forcing period of three time steps,
\* fluvial incision only, no uplift and end-time mode 1: a forcing cycle
\* completes every third step, so that the rolling record of per-cycle mean
\* erosion fills within a run.
CycleInit ==
  /\ InitGrid /\ InitClock
  /\ timeStep = 1 /\ endTime = 0 /\ endTime_mode = 1 /\ num_runs = 1
  /\ K_mode = 0 /\ D_mode = 0 /\ periodicity = 3
  /\ cycle_steady_check = FALSE
  /\ steady_state_tolerance = 0 /\ steady_state_limit = 0 - 1
  /\ hillslope = FALSE /\ nonlinear = FALSE /\ fluvial = TRUE
  /\ isostasy = FALSE /\ flexure = FALSE
  /\ threshold_drainage = 0 - 99
  /\ n = 1 /\ m = 1 /\ K_fluv = 1
  /\ max_uplift = 0
  /\ dave = DaveIdle
  /\ loop = LoopIdle
  /\ sys = SysIdle
  /\ fluv = FluvIdle
  /\ creep = CreepIdle
  /\ K_soil = 1 /\ inv_S_c_squared = 0 /\ quiet = FALSE
  /\ pc = "idle" /\ api = "none" /\ run = 1 /\ calls = 0
  /\ swap = [K_mode |-> K_mode, endTime |-> endTime]
  /\ h = [endTime0 |-> endTime, t0 |-> 0, steps |-> 0, iss0 |-> FALSE,
          snap |-> Free, order |-> <<>>, prev |-> <<>>, marks |-> 0]

SpecCycle == CycleInit /\ [][Next]_vars


\* ---------------------------------------------------- single process steps
\* One call of uplift_surface, of the hillslope step or of fluvial_incision
\* on a model read from a raster: every grid of the sizes followed, every
\* combination of the boundary codes.  h keeps the operation, the field before
\* it and the flow network it used.
BoundaryCodes == {"b", "p", "n"}

StepInit ==
  /\ \E size \in {<<3, 2>>, <<2, 3>>} : NRows = size[1] /\ NCols = size[2]
  /\ boundary_conditions \in [0..3 -> BoundaryCodes]
  /\ DataResolution = 1
  /\ RasterData = 1
  /\ steady_state_data = NoArray
  /\ \E g \in Grids : heap = [b \in Buf |-> IF b = 1 THEN g ELSE Free]
  /\ zeta_old = Free
  /\ timeStep = 1 /\ endTime = 0 /\ endTime_mode = 0 /\ num_runs = 1
  /\ K_mode = 0 /\ D_mode = 0 /\ periodicity = 4
  /\ cycle_steady_check = FALSE
  /\ steady_state_tolerance = 0 /\ steady_state_limit = 0 - 1
  /\ hillslope = TRUE /\ nonlinear = FALSE /\ fluvial = TRUE
  /\ isostasy = FALSE /\ flexure = FALSE
  /\ root_depth = [c \in Cells |-> 0]
  /\ threshold_drainage = 0 - 99
  /\ n \in {1, 2} /\ m = 1 /\ K_fluv \in {0, 1, 4}
  /\ max_uplift = 1
  /\ InitClock
  /\ dave = DaveIdle
  /\ loop = LoopIdle
  /\ sys = SysIdle
  /\ fluv = FluvIdle
  /\ creep = CreepIdle
  /\ K_soil = 1 /\ inv_S_c_squared = 0 /\ quiet = FALSE
  /\ pc = "ready" /\ api = "none" /\ run = 1 /\ calls = 0
  /\ swap = [K_mode |-> K_mode, endTime |-> endTime]
  /\ h = [op |-> "none", pre |-> Zeta, r |-> <<>>]

stepFrame == <<gridVars, fluv, creep, dave, loop, sys, root_depth, steady_state_data, zeta_old, cfgVars, endTime,
               endTime_mode, cycle_steady_check, clockVars, api, run, calls, swap>>

\* void LSDRasterModel::uplift_surface( void )
step_uplift_surface ==
  /\ pc = "ready"
  /\ heap' = WriteInPlace(heap, uplift_surface(Zeta))
  /\ h' = [op |-> "uplift_surface", pre |-> Zeta, r |-> <<>>]
  /\ pc' = "stepped"
  /\ UNCHANGED <<RasterData, stepFrame>>

\* soil_diffusion_fd_linear / soil_diffusion_fv_nonlinear
step_soil_diffusion ==
  /\ pc = "ready"
  /\ \E g \in soil_diffusion(Zeta) : heap' = WriteInPlace(heap, g)
  /\ h' = [op |-> "soil_diffusion", pre |-> Zeta, r |-> <<>>]
  /\ pc' = "stepped"
  /\ UNCHANGED <<RasterData, stepFrame>>

\* void LSDRasterModel::fluvial_incision( void )
step_fluvial_incision ==
  /\ pc = "ready"
  /\ \E r \in FlowNets(Zeta) :
        /\ RasterData' = RebindTarget
        /\ heap' = [heap EXCEPT ![RebindTarget] = fluvial_incision(Zeta, r)]
        /\ h' = [op |-> "fluvial_incision", pre |-> Zeta, r |-> r]
  /\ pc' = "stepped"
  /\ UNCHANGED stepFrame

StepNext ==
  \/ step_uplift_surface
  \/ step_soil_diffusion
  \/ step_fluvial_incision

SpecStep == StepInit /\ [][StepNext]_vars

\* ------------------------------------------- adaptive-timestep hillslope solver
\* DAVE_wrapper -> DAVE_nonlinear_creep_timestep.  The time step is a float
\* in the source; here it is a multiple of 10^MaxCuts so that the divisions
\* by ten followed are exact.
RECURSIVE Pow10(_)
Pow10(k) == IF k = 0 THEN 1 ELSE 10 * Pow10(k - 1)

\* float iteration_tolerance = 0.00001: below the resolution of the
\* elevations, so max_residual > iteration_tolerance iff it is not zero
iteration_tolerance == 0

\* the loop over the cells that leaves the largest |zeta_this_iter -
\* zeta_last_iter| in max_residual
RECURSIVE MaxResidual(_, _, _)
MaxResidual(this, last, S) ==
  IF S = {} THEN 0
  ELSE LET c == CHOOSE x \in S : TRUE
       IN Max(Abs(this[c] - last[c]), MaxResidual(this, last, S \ {c}))

\* variant: a failed attempt leaves the time step as it is
reduced_timestep_kept(dt) == dt

\* dt_new = timeStep/10
reduced_timestep(dt) == dt \div 10

DaveInit ==
  /\ NRows = 2 /\ NCols = 1
  /\ boundary_conditions = [i \in 0..3 |-> IF i % 2 = 0 THEN "b" ELSE "p"]
  /\ DataResolution = 1
  /\ RasterData = 1
  /\ steady_state_data = NoArray
  /\ \E g \in Grids : heap = [b \in Buf |-> IF b = 1 THEN g ELSE Free]
  /\ zeta_old = Free
  /\ timeStep \in {Pow10(MaxCuts), 2 * Pow10(MaxCuts)}
  /\ endTime = 0 /\ endTime_mode = 0 /\ num_runs = 1
  /\ K_mode = 0 /\ D_mode = 0 /\ periodicity = 4
  /\ cycle_steady_check = FALSE
  /\ steady_state_tolerance = 0 /\ steady_state_limit = 0 - 1
  /\ hillslope = TRUE /\ nonlinear = TRUE /\ fluvial = FALSE
  /\ isostasy = FALSE /\ flexure = FALSE
  /\ root_depth = [c \in Cells |-> 0]
  /\ threshold_drainage = 0 - 99
  /\ n = 1 /\ m = 1 /\ K_fluv = 1
  /\ max_uplift = 0
  /\ InitClock
  /\ dave = DaveIdle
  /\ loop = LoopIdle
  /\ sys = SysIdle
  /\ fluv = FluvIdle
  /\ creep = CreepIdle
  /\ K_soil = 1 /\ inv_S_c_squared = 0 /\ quiet = FALSE
  /\ pc = "idle" /\ api = "none" /\ run = 1 /\ calls = 0
  /\ swap = [K_mode |-> K_mode, endTime |-> endTime]
  /\ h = [pre |-> Zeta, failed |-> 0, iterated |-> FALSE, single |-> FALSE,
          used |-> 0, prev_single |-> FALSE, prev_used |-> 0]

daveFrame == <<gridVars, fluv, creep, loop, sys, steady_state_data, zeta_old, root_depth, num_runs,
               D_mode, periodicity, steady_state_tolerance, steady_state_limit,
               hillslope, nonlinear, fluvial, isostasy, flexure,
               threshold_drainage, n, m, K_fluv, max_uplift, DataResolution,
               K_soil, inv_S_c_squared, quiet, K_mode, endTime, endTime_mode,
               cycle_steady_check, clockVars, api, run, swap>>

\* lines 3657-3665: the locals of DAVE_nonlinear_creep_timestep
dave_call ==
  /\ pc = "idle" /\ calls < MaxCalls
  /\ calls' = calls + 1
  /\ dave' = [dave EXCEPT !.dt_old = timeStep,
                          !.max_residual = iteration_tolerance + 1,
                          !.continue_switch = FALSE,
                          !.n_iterations = 0]
  /\ h' = [pre |-> Zeta, failed |-> 0, iterated |-> FALSE, single |-> FALSE,
           used |-> 0, prev_single |-> h.single, prev_used |-> h.used]
  /\ pc' = "while_continue_switch"
  /\ UNCHANGED <<heap, RasterData, timeStep, daveFrame>>

\* lines 3666-3671: while (continue_switch == false) and the reset of
\* zeta_last_iter and zeta_last_timestep
dave_attempt ==
  /\ pc = "while_continue_switch"
  /\ dave.continue_switch = FALSE
  /\ dave' = [dave EXCEPT !.zeta_last_iter = Zeta, !.zeta_last_timestep = Zeta]
  /\ h' = [h EXCEPT !.iterated = FALSE]
  /\ pc' = "while_residual"
  /\ UNCHANGED <<heap, RasterData, timeStep, calls, daveFrame>>

\* lines 3673-3701: one pass of the inner loop; DAVE_solve_assembler_matrix
\* fills zeta_this_iter with the solver's answer
dave_iterate ==
  /\ pc = "while_residual"
  /\ dave.max_residual > iteration_tolerance
  /\ dave.n_iterations <= max_iterations
  /\ \E g \in Grids :
        dave' = [dave EXCEPT !.zeta_this_iter = g,
                             !.max_residual = MaxResidual(g, dave.zeta_last_iter, Cells),
                             !.zeta_last_iter = g,
                             !.n_iterations = @ + 1]
  /\ h' = [h EXCEPT !.iterated = TRUE]
  /\ UNCHANGED <<heap, RasterData, timeStep, pc, calls, daveFrame>>

\* lines 3703-3738: the adaptation of the time step after the inner loop
dave_adapt ==
  /\ pc = "while_residual"
  /\ ~ (dave.max_residual > iteration_tolerance /\ dave.n_iterations <= max_iterations)
  /\ IF dave.n_iterations = 1
     THEN /\ timeStep' = timeStep * 2
          /\ dave' = [dave EXCEPT !.continue_switch = TRUE, !.n_iterations = 0]
          /\ h' = [h EXCEPT !.single = TRUE, !.used = timeStep]
     ELSE IF dave.n_iterations >= max_iterations
     THEN /\ h.failed < MaxCuts
          /\ timeStep' = reduced_timestep(timeStep)
          /\ dave' = [dave EXCEPT !.zeta_last_iter = Zeta,
                                  !.continue_switch = FALSE, !.n_iterations = 0]
          /\ h' = [h EXCEPT !.failed = @ + 1]
     ELSE /\ timeStep' = timeStep
          /\ dave' = [dave EXCEPT !.continue_switch = TRUE, !.n_iterations = 0]
          /\ h' = [h EXCEPT !.single = FALSE, !.used = timeStep]
  /\ pc' = "while_continue_switch"
  /\ UNCHANGED <<heap, RasterData, calls, daveFrame>>

\* lines 3740-3741: RasterData = zeta_this_iter.copy(); timeStep = dt_old
dave_return ==
  /\ pc = "while_continue_switch"
  /\ dave.continue_switch = TRUE
  /\ RasterData' = RebindTarget
  /\ heap' = [heap EXCEPT ![RebindTarget] = dave.zeta_this_iter]
  /\ timeStep' = dave.dt_old
  /\ pc' = "idle"
  /\ UNCHANGED <<dave, calls, h, daveFrame>>

DaveNext ==
  \/ dave_call
  \/ dave_attempt
  \/ dave_iterate
  \/ dave_adapt
  \/ dave_return

SpecDave == DaveInit /\ [][DaveNext]_vars

\* ------------------------------------------------ nonlinear hillslope solver
\* void LSDRasterModel::soil_diffusion_fv_nonlinear( void ): the do loop that
\* repeats the solve until two successive fields agree.
max_iter == 200

\* float epsilon = 0.00001: below the resolution of the elevations, so
\* max_diff > epsilon iff max_diff is positive
picard_epsilon == 0

\* lines 2263-2272: the scan that leaves in max_diff the difference (with its
\* sign) of the last cell, in row-major order, whose |difference| is larger
\* than max_diff so far; k counts the cells scanned
RECURSIVE max_diff_scan(_, _, _)
max_diff_scan(this, last, k) ==
  IF k = 0 THEN 0
  ELSE LET c    == <<(k - 1) \div NCols, (k - 1) % NCols>>
           sofar == max_diff_scan(this, last, k - 1)
       IN IF Abs(this[c] - last[c]) > sofar THEN this[c] - last[c] ELSE sofar

\* line 2286: ++iter.  The loop body declares itl::basic_iteration<float>
\* iter (line 2240), which hides the int iter of line 2193 up to the end of
\* the body, so the solver's iteration object is what is incremented
pass_counter(lp) == [lp EXCEPT !.solver_iter = @ + 1]

\* line 2287: while (max_diff > epsilon && iter < max_iter); iter is the int
\* of line 2193
picard_continue == loop.max_diff > picard_epsilon /\ loop.iter < max_iter

\* a model of four rows and one column with the default boundary codes: two
\* unknown cells between the fixed north and south edges
PicardInit ==
  /\ NRows = 4 /\ NCols = 1
  /\ boundary_conditions = [i \in 0..3 |-> IF i % 2 = 0 THEN "b" ELSE "p"]
  /\ DataResolution = 1
  /\ RasterData = 1
  /\ steady_state_data = NoArray
  /\ \E g \in Grids : heap = [b \in Buf |-> IF b = 1 THEN g ELSE Free]
  /\ zeta_old = Free
  /\ root_depth = [c \in Cells |-> 0]
  /\ timeStep = 1 /\ endTime = 0 /\ endTime_mode = 0 /\ num_runs = 1
  /\ K_mode = 0 /\ D_mode = 0 /\ periodicity = 4
  /\ cycle_steady_check = FALSE
  /\ steady_state_tolerance = 0 /\ steady_state_limit = 0 - 1
  /\ hillslope = TRUE /\ nonlinear = TRUE /\ fluvial = FALSE
  /\ isostasy = FALSE /\ flexure = FALSE
  /\ threshold_drainage = 0 - 99
  /\ n = 1 /\ m = 1 /\ K_fluv = 1
  /\ max_uplift = 0
  /\ InitClock
  /\ dave = DaveIdle
  /\ loop = LoopIdle
  /\ sys = SysIdle
  /\ fluv = FluvIdle
  /\ creep = CreepIdle
  /\ K_soil = 1 /\ inv_S_c_squared = 0 /\ quiet = FALSE
  /\ pc = "idle" /\ api = "none" /\ run = 1 /\ calls = 0
  /\ swap = [K_mode |-> K_mode, endTime |-> endTime]
  /\ h = [pre |-> Zeta]

picardFrame == <<gridVars, fluv, creep, dave, sys, RasterData, steady_state_data, zeta_old,
                 root_depth, cfgVars, endTime, endTime_mode, cycle_steady_check,
                 clockVars, api, run, swap>>

\* lines 2193-2200: the locals and interpret_boundary
picard_call ==
  /\ pc = "idle" /\ calls < MaxCalls
  /\ calls' = calls + 1
  /\ loop' = [LoopIdle EXCEPT !.iter = 0]
  /\ h' = [pre |-> Zeta]
  /\ pc' = "picard_do"
  /\ UNCHANGED <<heap, picardFrame>>

\* lines 2202-2286: one pass of the loop body.  The solver's iteration
\* object is made anew in every pass and counts the steps of bicgstab.
picard_pass ==
  /\ pc = "picard_do"
  /\ \E g \in soil_diffusion(Zeta), steps \in {0, 1} :
        /\ heap' = WriteInPlace(heap, g)
        /\ loop' = pass_counter([loop EXCEPT
                       !.last_iteration = Zeta,
                       !.solver_iter = steps,
                       !.max_diff = max_diff_scan(g, Zeta, NRows * NCols)])
  /\ pc' = "picard_while"
  /\ UNCHANGED <<calls, h, picardFrame>>

\* line 2287: the loop test
picard_test ==
  /\ pc = "picard_while"
  /\ pc' = IF picard_continue THEN "picard_do" ELSE "idle"
  /\ UNCHANGED <<heap, loop, calls, h, picardFrame>>

PicardNext ==
  \/ picard_call
  \/ picard_pass
  \/ picard_test

\* the loop is a sequential program: a step that can be taken is taken
SpecPicard == PicardInit /\ [][PicardNext]_vars /\ WF_vars(PicardNext)

\* ---------------------------------------------- the hillslope linear systems
\* soil_diffusion_fd_linear and the first pass of soil_diffusion_fv_nonlinear:
\* interpret_boundary, the assembly of matrix and data_vector, the solve and
\* repack_vector.  Coefficients are in thousandths.

\* float LSDRasterModel::get_D( void ), D_mode 0 (constant)
get_D == K_soil

\* float r = get_D() * timeStep / (DataResolution * DataResolution)
r_fd == (1000 * get_D * timeStep) \div (DataResolution * DataResolution)

\* float r_ = get_D() * timeStep / pow(DataResolution * 1.4142135623, 2)
r_diag == (1000 * get_D * timeStep) \div (2 * DataResolution * DataResolution)

\* ins[i][j] << v: the insertions of one matrix row, in program order, as
\* pairs <<j, v>>
OneIns(j, v) == <<<<j, v>>>>
NoIns == <<>>

\* the value the inserter keeps for column q: that of the last insertion
RECURSIVE Stored(_, _)
Stored(ins, q) ==
  IF ins = <<>> THEN 0
  ELSE IF ins[Len(ins)][1] = q THEN ins[Len(ins)][2]
  ELSE Stored(SubSeq(ins, 1, Len(ins) - 1), q)

\* generate_fd_matrix, "left", "right", "up", "down": the neighbour inside the
\* block of unknowns, or across the edge when the block wraps on this axis
fd_side(inside, wraps, j_in, j_wrap, periodic) ==
  IF inside THEN [ins |-> OneIns(j_in, 0 - r_fd), lost |-> 0]
  ELSE IF wraps
  THEN IF ~periodic THEN [ins |-> NoIns, lost |-> 1]
       ELSE [ins |-> OneIns(j_wrap, 0 - r_fd), lost |-> 0]
  ELSE [ins |-> NoIns, lost |-> 0]

\* generate_fd_matrix, the four diagonal neighbours
fd_corner(inside, j_in, c0, j0, c1, j1, v1, periodic) ==
  IF inside THEN [ins |-> OneIns(j_in, 0 - r_diag), lost |-> 0]
  ELSE IF c0
  THEN IF ~periodic THEN [ins |-> NoIns, lost |-> 1]
       ELSE [ins |-> OneIns(j0, 0 - r_diag), lost |-> 0]
  ELSE IF c1
  THEN IF ~periodic THEN [ins |-> NoIns, lost |-> 1]
       ELSE [ins |-> OneIns(j1, v1), lost |-> 0]
  ELSE [ins |-> NoIns, lost |-> 0]

\* generate_fd_matrix: the insertions of row i
fd_row(i, dimension, periodic) ==
  LET width  == IF dimension = 0 THEN NCols ELSE NCols - 2
      height == IF dimension = 0 THEN NRows - 2 ELSE NRows
      row    == i \div width
      col    == i % width
      wrap   == width * (NCols - 1)
      left   == fd_side(col > 0, dimension = 0, i - 1, i + width - 1, periodic)
      right  == fd_side(col < width - 1, dimension = 0, i + 1, i - width + 1,
                        periodic)
      up     == fd_side(row > 0, dimension = 1, i - width, i + wrap, periodic)
      down   == fd_side(row < height - 1, dimension = 1, i + width, i - wrap,
                        periodic)
      ul     == fd_corner(row > 0 /\ col > 0, i - width - 1,
                          dimension = 0 /\ row > 0, i - 1,
                          dimension = 1 /\ col > 0, i + wrap - 1, 0 - r_fd,
                          periodic)
      ur     == fd_corner(row > 0 /\ col < width - 1, i - width + 1,
                          dimension = 0 /\ row > 0, i - (2 * width) + 1,
                          dimension = 1 /\ col < width - 1, i + wrap + 1,
                          0 - r_diag, periodic)
      ll     == fd_corner(row < height - 1 /\ col > 0, i + width - 1,
                          dimension = 0 /\ row < height - 1, i + (2 * width) - 1,
                          dimension = 1 /\ col > 0, col - 1, 0 - r_diag,
                          periodic)
      lr     == fd_corner(row < height - 1 /\ col < width - 1, i + width + 1,
                          dimension = 0 /\ row < height - 1, i + 1,
                          dimension = 1 /\ col < width - 1, col + 1, 0 - r_diag,
                          periodic)
      num_neighbours  == 4 - left.lost - right.lost - up.lost - down.lost
      num_neighbours_ == 4 - ul.lost - ur.lost - ll.lost - lr.lost
  IN left.ins \o right.ins \o up.ins \o down.ins
     \o ul.ins \o ur.ins \o ll.ins \o lr.ins
     \o OneIns(i, num_neighbours * r_fd + 1000 + num_neighbours_ * r_diag)

\* mtl::compressed2D<float> LSDRasterModel::generate_fd_matrix
generate_fd_matrix(dimension, size, periodic) ==
  [e \in (0..(size - 1)) \X (0..(size - 1)) |->
     Stored(fd_row(e[1], dimension, periodic), e[2])]

\* the cell whose unknown is at position p of the vectors
CellAt(p, dimension) ==
  IF dimension = 0 THEN <<1 + (p \div NCols), p % NCols>>
  ELSE <<p \div (NCols - 2), 1 + (p % (NCols - 2))>>

\* mtl::dense_vector<float> LSDRasterModel::build_fd_vector
build_fd_vector(z, dimension, size) ==
  [p \in 0..(size - 1) |->
     LET i == CellAt(p, dimension)[1]
         j == CellAt(p, dimension)[2]
     IN 1000 * z[<<i, j>>]
        + (IF dimension = 0
           THEN IF i = 1 THEN z[<<0, j>>] * r_fd
                ELSE IF j = NRows - 2 THEN z[<<NRows - 1, j>>] * r_fd
                ELSE 0
           ELSE IF j = 1 THEN z[<<i, 0>>] * r_fd
                ELSE IF j = NCols - 2 THEN z[<<i, NCols - 1>>] * r_fd
                ELSE 0)]

\* float front = timeStep * get_D() / (DataResolution*DataResolution)
front == (1000 * timeStep * get_D) \div (DataResolution * DataResolution)

\* float inv_term = 1 / (DataResolution * DataResolution * S_c * S_c)
inv_term == inv_S_c_squared \div (DataResolution * DataResolution)

\* front / (1 - pow(a - b, 2) * inv_term)
fv_coef(a, b) == TruncDiv(front * 1000, 1000 - (a - b) * (a - b) * inv_term)

\* generate_fv_matrix: the insertions of the row of cell <<i, j>>, which is
\* at position p
fv_row(z, i, j, p, dimension, periodic) ==
  LET start_i == IF dimension = 0 THEN 1 ELSE 0
      end_i   == IF dimension = 0 THEN NRows - 2 ELSE NRows - 1
      start_j == IF dimension = 0 THEN 0 ELSE 1
      end_j   == IF dimension = 0 THEN NCols - 1 ELSE NCols - 2
      offset  == IF dimension = 0 THEN NCols ELSE NCols - 2
      own     == z[<<i, j>>]
      A0 == IF i = 0 THEN 0 ELSE fv_coef(own, z[<<i - 1, j>>])
      B0 == IF j = NCols - 1 THEN 0 ELSE fv_coef(own, z[<<i, j + 1>>])
      C0 == IF i = NRows - 1 THEN 0 ELSE fv_coef(own, z[<<i + 1, j>>])
      D0 == IF j = 0 THEN 0 ELSE fv_coef(own, z[<<i, j - 1>>])
      A == IF periodic /\ i = 0 THEN fv_coef(own, z[<<NRows - 1, j>>]) ELSE A0
      B == IF periodic /\ i # 0 /\ j = NCols - 1
           THEN fv_coef(own, z[<<i, 0>>]) ELSE B0
      C == IF periodic /\ i # 0 /\ j # NCols - 1 /\ i = NRows - 1
           THEN fv_coef(own, z[<<0, j>>]) ELSE C0
      D == IF periodic /\ i # 0 /\ j # NCols - 1 /\ i # NRows - 1 /\ j = 0
           THEN fv_coef(own, z[<<i, NCols - 1>>]) ELSE D0
  IN OneIns(p, 1000 + A + B + C + D)
     \o (IF j # start_j THEN OneIns(p - 1, 0 - D)
         ELSE IF periodic /\ dimension = 0 THEN OneIns(p + offset - 1, 0 - D)
         ELSE NoIns)
     \o (IF j # end_j THEN OneIns(p + 1, 0 - B)
         ELSE IF periodic /\ dimension = 0 THEN OneIns(p - offset + 1, 0 - B)
         ELSE NoIns)
     \o (IF i # start_i THEN OneIns(p - offset, 0 - A)
         ELSE IF periodic /\ dimension = 1
         THEN OneIns(p + (offset * (NCols - 1)), 0 - A)
         ELSE NoIns)
     \o (IF i # end_i THEN OneIns(p + offset, 0 - C)
         ELSE IF periodic /\ dimension = 1
         THEN OneIns(p - (offset * (NCols - 1)), 0 - C)
         ELSE NoIns)

\* mtl::compressed2D<float> LSDRasterModel::generate_fv_matrix
generate_fv_matrix(z, dimension, size, periodic) ==
  [e \in (0..(size - 1)) \X (0..(size - 1)) |->
     Stored(fv_row(z, CellAt(e[1], dimension)[1], CellAt(e[1], dimension)[2],
                   e[1], dimension, periodic), e[2])]

\* mtl::dense_vector<float> LSDRasterModel::build_fv_vector
build_fv_vector(zold, z, dimension, size) ==
  [p \in 0..(size - 1) |->
     LET i == CellAt(p, dimension)[1]
         j == CellAt(p, dimension)[2]
         own == z[<<i, j>>]
     IN 1000 * zold[<<i, j>>]
        + (IF dimension = 0
           THEN (IF i = 1
                 THEN zold[<<0, j>>] * fv_coef(own, z[<<0, j>>]) ELSE 0)
                + (IF i = NRows - 2
                   THEN zold[<<NRows - 1, j>>] * fv_coef(own, z[<<NRows - 1, j>>])
                   ELSE 0)
           ELSE (IF j = 1 THEN zold[<<i, 0>>] * fv_coef(own, z[<<i, 0>>]) ELSE 0)
                + (IF j = NCols - 2
                   THEN zold[<<i, NCols - 1>>] * fv_coef(own, z[<<i, NCols - 1>>])
                   ELSE 0))]

\* void LSDRasterModel::interpret_boundary(dimension, periodic, size): what it
\* leaves in its three reference arguments and whether it prints its
\* warning.  periodic is a local of the caller without an initial value and
\* is assigned only when one of the two edges is coded 'p'.  The first
\* operand of the && in the warning's test is a char, true for every code.
interpret_boundary ==
  LET dimension == interpret_boundary_dimension
      one  == boundary_conditions[1 - dimension] = "p"
      t_other == boundary_conditions[3 - dimension] = "p"
  IN {[dimension |-> dimension,
       periodic  |-> per,
       size      |-> IF dimension = 0 THEN (NRows - 2) * NCols
                     ELSE NRows * (NCols - 2),
       warned    |-> (one \/ t_other) /\ ~(TRUE /\ t_other) /\ ~quiet,
       matrix    |-> <<>>,
       data_vector |-> <<>>] :
        per \in IF one \/ t_other THEN {TRUE} ELSE BOOLEAN}

\* a model made from a raster of three rows and three columns, four and
\* three, or three and four: flat,
\* or flat but for one cell that is higher or holds no data; every
\* combination of the boundary codes; zeta_old is the snapshot of line 1487
HillslopeInit ==
  /\ \E size \in {<<3, 3>>, <<4, 3>>, <<3, 4>>} :
        NRows = size[1] /\ NCols = size[2]
  /\ boundary_conditions \in [0..3 -> BoundaryCodes]
  /\ DataResolution = 1
  /\ RasterData = 1
  /\ steady_state_data = NoArray
  /\ \E c \in Cells, v \in Elev \cup {NoDataValue} :
        heap = [b \in Buf |-> IF b = 1 THEN [d \in Cells |-> IF d = c THEN v ELSE 0]
                               ELSE Free]
  /\ zeta_old = Zeta
  /\ root_depth = [c \in Cells |-> 0]
  /\ timeStep = 1 /\ endTime = 0 /\ endTime_mode = 0 /\ num_runs = 1
  /\ K_mode = 0 /\ D_mode = 0 /\ periodicity = 4
  /\ cycle_steady_check = FALSE
  /\ steady_state_tolerance = 0 /\ steady_state_limit = 0 - 1
  /\ hillslope = TRUE /\ nonlinear \in BOOLEAN /\ fluvial = FALSE
  /\ isostasy = FALSE /\ flexure = FALSE
  /\ threshold_drainage = 0 - 99
  /\ n = 1 /\ m = 1 /\ K_fluv = 1
  /\ max_uplift = 0
  /\ K_soil = 1 /\ quiet \in BOOLEAN
  /\ inv_S_c_squared \in {0, 250}
  /\ inv_S_c_squared # 0 => (nonlinear /\ \A c \in Cells : Zeta[c] # NoDataValue)
  /\ InitClock
  /\ dave = DaveIdle
  /\ loop = LoopIdle
  /\ sys = SysIdle
  /\ fluv = FluvIdle
  /\ creep = CreepIdle
  /\ pc = "ready" /\ api = "none" /\ run = 1 /\ calls = 0
  /\ swap = [K_mode |-> K_mode, endTime |-> endTime]
  /\ h = [pre |-> Zeta, written |-> {}]

hillslopeFrame == <<gridVars, fluv, creep, dave, loop, RasterData, steady_state_data, zeta_old,
                    root_depth, cfgVars, endTime, endTime_mode,
                    cycle_steady_check, clockVars, api, run, calls, swap>>

\* lines 1978-1981 and 2196-2200: interpret_boundary(dimension, periodic, size)
hs_interpret_boundary ==
  /\ pc = "ready"
  /\ sys' \in interpret_boundary
  /\ pc' = "assemble"
  /\ UNCHANGED <<heap, h, hillslopeFrame>>

\* lines 1983-1986 and 2204-2207: matrix and data_vector
hs_assemble ==
  /\ pc = "assemble"
  /\ sys' = [sys EXCEPT
       !.matrix = IF nonlinear
                  THEN generate_fv_matrix(Zeta, sys.dimension, sys.size, sys.periodic)
                  ELSE generate_fd_matrix(sys.dimension, sys.size, sys.periodic),
       !.data_vector = IF nonlinear
                       THEN build_fv_vector(zeta_old, Zeta, sys.dimension, sys.size)
                       ELSE build_fd_vector(Zeta, sys.dimension, sys.size)]
  /\ pc' = "solve"
  /\ UNCHANGED <<heap, h, hillslopeFrame>>

\* lines 2014-2023 and 2236-2244: itl::bicgstab and repack_vector(output,
\* dimension)
hs_solve ==
  /\ pc = "solve"
  /\ \E out \in SolverOutputs(sys.dimension) :
        heap' = WriteInPlace(heap, repack_vector(Zeta, out, sys.dimension))
  /\ h' = [h EXCEPT !.written = Unknowns(sys.dimension)]
  /\ pc' = "stepped"
  /\ UNCHANGED <<sys, hillslopeFrame>>

HillslopeNext ==
  \/ hs_interpret_boundary
  \/ hs_assemble
  \/ hs_solve

SpecHillslope == HillslopeInit /\ [][HillslopeNext]_vars

\* ------------------------------------------------------------ isostasy steps
\* The isostasy branch of run_components applied step after step to a model
\* of two rows and one column that initialize_model has set up (root_depth
\* is zero), with set_flexure called between steps.  h keeps the last two
\* operations and the fields before the last one.
IsoInit ==
  /\ NRows = 2 /\ NCols = 1
  /\ boundary_conditions \in [0..3 -> BoundaryCodes]
  /\ DataResolution = 1
  /\ RasterData = 1
  /\ steady_state_data = NoArray
  /\ \E g \in Grids :
        heap = [b \in Buf |-> IF b = 1 THEN [c \in Cells |-> IsoScale * g[c]]
                               ELSE Free]
  /\ zeta_old = Free
  /\ root_depth = [c \in Cells |-> 0]
  /\ timeStep = 1 /\ endTime = 0 /\ endTime_mode = 0 /\ num_runs = 1
  /\ K_mode = 0 /\ D_mode = 0 /\ periodicity = 4
  /\ cycle_steady_check = FALSE
  /\ steady_state_tolerance = 0 /\ steady_state_limit = 0 - 1
  /\ hillslope = FALSE /\ nonlinear = FALSE /\ fluvial = FALSE
  /\ isostasy = TRUE /\ flexure \in BOOLEAN
  /\ threshold_drainage = 0 - 99
  /\ n = 1 /\ m = 1 /\ K_fluv = 1
  /\ max_uplift = 0
  /\ InitClock
  /\ dave = DaveIdle
  /\ loop = LoopIdle
  /\ sys = SysIdle
  /\ fluv = FluvIdle
  /\ creep = CreepIdle
  /\ K_soil = 1 /\ inv_S_c_squared = 0 /\ quiet = FALSE
  /\ pc = "idle" /\ api = "none" /\ run = 1 /\ calls = 0
  /\ swap = [K_mode |-> K_mode, endTime |-> endTime]
  /\ h = [op |-> "none", before |-> "none", pre |-> Zeta, pre_root |-> root_depth]

isoFrame == <<gridVars, fluv, creep, dave, loop, sys, RasterData, steady_state_data, zeta_old,
              timeStep, num_runs, D_mode, periodicity, steady_state_tolerance,
              steady_state_limit, hillslope, nonlinear, fluvial, isostasy,
              threshold_drainage, n, m, K_fluv, max_uplift, DataResolution,
              K_soil, inv_S_c_squared, quiet, K_mode, endTime, endTime_mode,
              cycle_steady_check, clockVars, pc, api, run, swap>>

\* void set_flexure( bool on_status ) { flexure = on_status; }
set_flexure ==
  /\ flexure' = ~flexure
  /\ UNCHANGED <<heap, root_depth, calls, h, isoFrame>>

\* lines 1501-1508 with isostasy on
iso_step ==
  /\ calls < MaxIsoSteps
  /\ calls' = calls + 1
  /\ \E out \in isostasy_step(Zeta, root_depth) :
        /\ heap' = WriteInPlace(heap, out.zeta)
        /\ root_depth' = out.root
  /\ h' = [op |-> IF flexure THEN "flexural_isostasy_alt" ELSE "Airy_isostasy",
           before |-> h.op, pre |-> Zeta, pre_root |-> root_depth]
  /\ UNCHANGED <<flexure, isoFrame>>

IsoNext ==
  \/ set_flexure
  \/ iso_step

SpecIso == IsoInit /\ [][IsoNext]_vars

\* ------------------------------------------- fluvial incision, node by node
\* flow.get_SVector(): the stack of the flow network, every cell once, a
\* receiver before each of its donors
Stacks(r) ==
  {s \in [1..Cardinality(Cells) -> Cells] :
     /\ \A c \in Cells : \E k \in DOMAIN s : s[k] = c
     /\ \A k \in DOMAIN s :
          r[s[k]] # s[k] => \E j \in 1..(k-1) : s[j] = r[s[k]]}

FluvScale == 10      \* elevations of the fluvial model are 0, FluvScale, 2 FluvScale

\* variant: the loop that walks the stack from its top,
\* for (int i=numNodes-1; i>=0; --i)
node_at_fromTop(nodeList, i) == nodeList[Len(nodeList) + 1 - i]

\* node = nodeList[i] in for (int i=0; i<numNodes; ++i)
node_at(nodeList, i) == nodeList[i]

\* a model of three rows and one column or two rows and two columns, each
\* edge fixed or not, any field of three elevation levels
FluvialInit ==
  /\ \E size \in {<<3, 1>>, <<2, 2>>} : NRows = size[1] /\ NCols = size[2]
  /\ boundary_conditions \in [0..3 -> {"b", "n"}]
  /\ DataResolution = 1
  /\ RasterData = 1
  /\ steady_state_data = NoArray
  /\ \E g \in [Cells -> {0, FluvScale, 2 * FluvScale}] :
        heap = [b \in Buf |-> IF b = 1 THEN g ELSE Free]
  /\ zeta_old = Free
  /\ root_depth = [c \in Cells |-> 0]
  /\ timeStep = 1 /\ endTime = 0 /\ endTime_mode = 0 /\ num_runs = 1
  /\ K_mode = 0 /\ D_mode = 0 /\ periodicity = 4
  /\ cycle_steady_check = FALSE
  /\ steady_state_tolerance = 0 /\ steady_state_limit = 0 - 1
  /\ hillslope = TRUE /\ nonlinear = FALSE /\ fluvial = TRUE
  /\ isostasy = FALSE /\ flexure = FALSE
  /\ threshold_drainage = 0 - 99
  /\ n \in {1, 2} /\ m = 1 /\ K_fluv = 1
  /\ max_uplift = 0
  /\ InitClock
  /\ dave = DaveIdle
  /\ loop = LoopIdle
  /\ sys = SysIdle
  /\ fluv = FluvIdle
  /\ creep = CreepIdle
  /\ K_soil = 1 /\ inv_S_c_squared = 0 /\ quiet = FALSE
  /\ pc = "ready" /\ api = "none" /\ run = 1 /\ calls = 0
  /\ swap = [K_mode |-> K_mode, endTime |-> endTime]
  /\ h = [op |-> "none", pre |-> Zeta, r |-> <<>>,
          updates |-> [c \in Cells |-> 0], seen |-> [c \in Cells |-> 0]]

fluvialFrame == <<gridVars, creep, dave, loop, sys, root_depth, steady_state_data,
                  zeta_old, cfgVars, endTime, endTime_mode, cycle_steady_check,
                  clockVars, api, run, calls, swap>>

\* lines 2296-2306: zeta = RasterData.copy(), the flow network of zeta and
\* its stack
fluvial_call ==
  /\ pc = "ready"
  /\ \E r \in FlowNets(Zeta) : \E s \in Stacks(r) :
        fluv' = [zeta |-> Zeta, nodeList |-> s, i |-> 1, flow |-> r]
  /\ h' = [h EXCEPT !.op = "fluvial_incision", !.pre = Zeta, !.r = fluv'.flow]
  /\ pc' = "fluvial_node"
  /\ UNCHANGED <<heap, RasterData, fluvialFrame>>

\* lines 2322-2378: one pass of the loop over nodeList.  In the branch for
\* n # 1 new_zeta is left in a local.
fluvial_node ==
  /\ pc = "fluvial_node" /\ fluv.i <= Len(fluv.nodeList)
  /\ LET node     == node_at(fluv.nodeList, fluv.i)
         receiver == fluv.flow[node]
         skip     == flow_length_code(fluv.flow, node) = 0
     IN /\ fluv' = [fluv EXCEPT
              !.i = @ + 1,
              !.zeta = IF ~skip /\ n = 1 /\ node # receiver
                       THEN [@ EXCEPT ![node] =
                               LinearIncision(fluv.flow, node, fluv.zeta[node],
                                              fluv.zeta[receiver])]
                       ELSE @]
        /\ h' = IF ~skip /\ n = 1 /\ node # receiver
                THEN [h EXCEPT !.updates[node] = @ + 1,
                               !.seen[node] = fluv.zeta[receiver]]
                ELSE h
  /\ UNCHANGED <<heap, RasterData, pc, fluvialFrame>>

\* line 2380: this->RasterData = zeta
fluvial_assign ==
  /\ pc = "fluvial_node" /\ fluv.i > Len(fluv.nodeList)
  /\ RasterData' = RebindTarget
  /\ heap' = [heap EXCEPT ![RebindTarget] = fluv.zeta]
  /\ pc' = "stepped"
  /\ UNCHANGED <<fluv, h, fluvialFrame>>

FluvialNext ==
  \/ fluvial_call
  \/ fluvial_node
  \/ fluvial_assign

SpecFluvial == FluvialInit /\ [][FluvialNext]_vars

\* ------------------------------------------------------- creep time step
\* soil_diffusion_fv -> nonlinear_creep_timestep.  Residuals and tolerances
\* are in thousandths of an elevation unit.
Max_iter == 100

\* variant: the tolerance is left as it is
relaxed_tolerance_kept(tol) == tol

\* iteration_tolerance = iteration_tolerance*10
relaxed_tolerance(tol) == tol * 10

\* residual: the mean over all nodes of sqrt((zeta_intermediate - zeta)^2)
creep_residual(this, last) ==
  TruncDiv(1000 * SumOver([c \in Cells |-> Abs(this[c] - last[c])], Cells),
           NRows * NCols)

\* a model of two rows and one column, each edge fixed or not
CreepInit ==
  /\ NRows = 2 /\ NCols = 1
  /\ boundary_conditions \in [0..3 -> {"b", "n"}]
  /\ DataResolution = 1
  /\ RasterData = 1
  /\ steady_state_data = NoArray
  /\ \E g \in Grids : heap = [b \in Buf |-> IF b = 1 THEN g ELSE Free]
  /\ zeta_old = Free
  /\ root_depth = [c \in Cells |-> 0]
  /\ timeStep = 1 /\ endTime = 0 /\ endTime_mode = 0 /\ num_runs = 1
  /\ K_mode = 0 /\ D_mode = 0 /\ periodicity = 4
  /\ cycle_steady_check = FALSE
  /\ steady_state_tolerance = 0 /\ steady_state_limit = 0 - 1
  /\ hillslope = TRUE /\ nonlinear = TRUE /\ fluvial = FALSE
  /\ isostasy = FALSE /\ flexure = FALSE
  /\ threshold_drainage = 0 - 99
  /\ n = 1 /\ m = 1 /\ K_fluv = 1
  /\ max_uplift = 0
  /\ InitClock
  /\ dave = DaveIdle
  /\ loop = LoopIdle
  /\ sys = SysIdle
  /\ fluv = FluvIdle
  /\ creep = CreepIdle
  /\ K_soil = 1 /\ inv_S_c_squared = 0 /\ quiet = FALSE
  /\ pc = "idle" /\ api = "none" /\ run = 1 /\ calls = 0
  /\ swap = [K_mode |-> K_mode, endTime |-> endTime]
  /\ h = [pre |-> Zeta, relaxations |-> 0, earlier |-> 0]

creepFrame == <<gridVars, fluv, dave, loop, sys, steady_state_data, zeta_old,
                root_depth, cfgVars, endTime, endTime_mode, cycle_steady_check,
                clockVars, api, run, swap>>

\* soil_diffusion_fv up to the first pass of the loop of
\* nonlinear_creep_timestep: exit(1) unless the south edge is fixed; the
\* tolerance is passed by value
creep_call ==
  /\ pc = "idle" /\ calls < MaxCalls
  /\ calls' = calls + 1
  /\ IF boundary_conditions[2] = "b"
     THEN /\ creep' = [creep EXCEPT
                 !.iteration_tolerance = creep.static_tolerance,
                 !.zeta = Zeta, !.zeta_intermediate = Zeta,
                 !.residual = 0, !.iteration = 0]
          /\ pc' = "creep_do"
     ELSE /\ creep' = creep
          /\ pc' = "exit"
  /\ h' = [pre |-> Zeta, relaxations |-> 0,
           earlier |-> h.earlier + h.relaxations]
  /\ UNCHANGED <<heap, RasterData, creepFrame>>

\* lines 1253-1287: one pass of the do loop and its test; zeta_intermediate
\* is what mtl_solve_assembler_matrix returns
creep_iterate ==
  /\ pc = "creep_do"
  /\ \E g \in Grids :
       LET res   == creep_residual(g, creep.zeta)
           relax == creep.iteration + 1 > Max_iter
           tol   == IF relax THEN relaxed_tolerance(creep.iteration_tolerance)
                    ELSE creep.iteration_tolerance
       IN /\ creep' = [creep EXCEPT
                 !.zeta_intermediate = g, !.residual = res, !.zeta = g,
                 !.iteration = IF relax THEN 0 ELSE @ + 1,
                 !.iteration_tolerance = tol]
          /\ h' = [h EXCEPT !.relaxations = IF relax THEN @ + 1 ELSE @]
          /\ pc' = IF res > tol THEN "creep_do" ELSE "creep_done"
  /\ UNCHANGED <<heap, RasterData, calls, creepFrame>>

\* line 1291: RasterData = zeta.copy()
creep_return ==
  /\ pc = "creep_done"
  /\ RasterData' = RebindTarget
  /\ heap' = [heap EXCEPT ![RebindTarget] = creep.zeta]
  /\ pc' = "idle"
  /\ UNCHANGED <<creep, calls, h, creepFrame>>

CreepNext ==
  \/ creep_call
  \/ creep_iterate
  \/ creep_return

SpecCreep == CreepInit /\ [][CreepNext]_vars

\* ------------------------------------------------------------------ wash_out
\* One call of wash_out in the middle of a time step: a model of two rows and
\* two columns, any start-of-step snapshot zeta_old, any field left by the
\* hillslope step, each edge fixed or not.
WashInit ==
  /\ NRows = 2 /\ NCols = 2
  /\ boundary_conditions \in [0..3 -> {"b", "n"}]
  /\ DataResolution = 1
  /\ RasterData = 1
  /\ steady_state_data = NoArray
  /\ \E g \in Grids : heap = [b \in Buf |-> IF b = 1 THEN g ELSE Free]
  /\ zeta_old \in Grids
  /\ root_depth = [c \in Cells |-> 0]
  /\ timeStep = 1 /\ endTime = 0 /\ endTime_mode = 0 /\ num_runs = 1
  /\ K_mode = 0 /\ D_mode = 0 /\ periodicity = 4
  /\ cycle_steady_check = FALSE
  /\ steady_state_tolerance = 0 /\ steady_state_limit = 0 - 1
  /\ hillslope \in BOOLEAN /\ nonlinear = FALSE /\ fluvial \in BOOLEAN
  /\ isostasy = FALSE /\ flexure = FALSE
  /\ threshold_drainage \in {0 - 99, 0, 1, 2}
  /\ n = 1 /\ m = 1 /\ K_fluv = 1
  /\ max_uplift = 0
  /\ InitClock
  /\ dave = DaveIdle
  /\ loop = LoopIdle
  /\ sys = SysIdle
  /\ fluv = FluvIdle
  /\ creep = CreepIdle
  /\ K_soil = 1 /\ inv_S_c_squared = 0 /\ quiet = FALSE
  /\ pc = "ready" /\ api = "none" /\ run = 1 /\ calls = 0
  /\ swap = [K_mode |-> K_mode, endTime |-> endTime]
  /\ h = [op |-> "none", pre |-> Zeta, r |-> <<>>]

\* void LSDRasterModel::wash_out( void )
step_wash_out ==
  /\ pc = "ready"
  /\ IF threshold_drainage < 0 \/ ~hillslope \/ ~fluvial
     THEN /\ heap' = heap
          /\ h' = [op |-> "wash_out", pre |-> Zeta, r |-> <<>>]
     ELSE \E r \in FlowNets(zeta_old) :
            /\ heap' = WriteInPlace(heap, wash_out(Zeta, r))
            /\ h' = [op |-> "wash_out", pre |-> Zeta, r |-> r]
  /\ pc' = "stepped"
  /\ UNCHANGED <<RasterData, stepFrame>>

SpecWash == WashInit /\ [][step_wash_out]_vars

\* ==================================================================== claims
\* a check of the end condition has just been made in this run_components call
AfterEndCheck == pc \in {"return", "check_if_hung"} /\ h.steps > 0

\* C1: in end-time modes 1, 2 and 3 a run that has not reached initial steady
\* state does not get past the hung check once the model time (mode 2: the
\* cycle count) exceeds 100 times the configured end value.
C1_HungRunIsAborted ==
  (pc = "snapshot" /\ ~initial_steady_state)
    => /\ endTime_mode \in {1, 3} => ~(current_time > endTime * 100)
       /\ endTime_mode = 2 => ~(TruncDiv(current_time, periodicity) > endTime * 100)

\* C2: for every grid size and every combination of the four boundary codes,
\* the elevation of every base-level cell (is_base_level) is the same after
\* uplift_surface, after the hillslope step and after fluvial_incision as it
\* was before that operation.
C2_BaseLevelIsFixed ==
  pc = "stepped"
    => \A c \in Cells : is_base_level(c[1], c[2]) => Zeta[c] = h.pre[c]

C4_SingleIterationSpeedsUpNextCall ==
  (pc # "idle" /\ h.prev_single) => dave.dt_old > h.prev_used

\* a solve attempt of DAVE_nonlinear_creep_timestep is under way
InDaveCall == pc \in {"while_continue_switch", "while_residual"}

\* C5: if a solve attempt fails to converge within the iteration cap, the time
\* step is divided by 10, so the retry uses a strictly smaller step; RasterData
\* is not written until an attempt is accepted; zeta_last_iter and
\* zeta_last_timestep are both reset to the pre-step elevation before every
\* attempt.
C5_FailedAttemptIsRetriedFromPreStep ==
  InDaveCall
    => /\ Zeta = h.pre
       /\ ~dave.continue_switch
            => /\ timeStep * Pow10(h.failed) = dave.dt_old
               /\ h.failed > 0 => timeStep < dave.dt_old
       /\ (pc = "while_residual" /\ ~h.iterated)
            => /\ dave.zeta_last_iter = h.pre
               /\ dave.zeta_last_timestep = h.pre

C5_Witness ==
  /\ pc = "while_residual" /\ ~h.iterated /\ h.failed = 1
  /\ dave.max_residual > iteration_tolerance
  /\ dave.zeta_this_iter # h.pre
  /\ timeStep * 10 = dave.dt_old
  /\ dave.zeta_last_iter = h.pre /\ Zeta = h.pre

\* C6: for a slope exponent n different from 1, fluvial_incision replaces the
\* elevation of every cell that drains to another cell by the value its
\* Newton-Raphson iteration converged to (here: to the nearest whole
\* elevation unit, the resolution of the elevations).
C6_NewtonResultIsStored ==
  (pc = "stepped" /\ h.op = "fluvial_incision" /\ n # 1)
    => \A c \in Cells :
          h.r[c] # c
            => 2 * Abs(Zeta[c] * 1000 - new_zeta_of(h.pre, h.r, c)) <= 1000

\* C7: when run_model_from_steady_state performs num_runs > 1 runs, every run
\* begins with current_time = 0, total_erosion = 0 and an elevation field equal
\* to the stored snapshot steady_state_data.
C7_EveryRunStartsFromSnapshot ==
  (api = "run_model_from_steady_state" /\ pc = "check_if_hung" /\ h.steps = 0
     /\ num_runs > 1)
    => /\ current_time = 0
       /\ total_erosion = 0
       /\ Zeta = heap[steady_state_data]

\* C8: the snapshot steady_state_data stored by reach_steady_state is never
\* changed by the time steps of later run_model / run_model_from_steady_state
\* calls: it still holds the values it had when reach_steady_state returned.
C8_SnapshotIsNeverChanged ==
  (steady_state_data # NoArray /\ api \in {"run_model", "run_model_from_steady_state"})
    => heap[steady_state_data] = h.snap

C10_FixedEndTimeStepCount ==
  (AfterEndCheck /\ endTime_mode = 0 /\ h.t0 = 0)
    => /\ h.steps >= 1
       /\ pc = "return" <=> current_time >= endTime
       /\ pc = "return" => h.steps = Max(1, CeilDiv(h.endTime0, timeStep))

C10_Witness ==
  /\ pc = "return" /\ endTime_mode = 0 /\ h.t0 = 0 /\ timeStep = 2
  /\ h.endTime0 = 3 /\ h.steps = 2 /\ ~initial_steady_state

\* ---------------------------------------------------------------- C11
IsPrefix(a, b) == Len(a) <= Len(b) /\ \A i \in 1..Len(a) : a[i] = b[i]

\* the process p is switched on
SwitchedOn(p) ==
  CASE p = "hillslope" -> hillslope
    [] p = "wash_out"  -> threshold_drainage >= 0 /\ hillslope /\ fluvial
    [] p = "fluvial"   -> fluvial
    [] p = "isostasy"  -> isostasy
    [] OTHER           -> TRUE

\* one whole iteration as the documentation orders it
IterationOrder ==
  <<"zeta_old">>
  \o SelectSeq(<<"hillslope", "wash_out", "fluvial", "isostasy", "uplift",
                 "write_report">>, SwitchedOn)
  \o <<"current_time", "check_steady_state", "check_end_condition">>

\* C11: within every iteration of the run_components loop the enabled
\* processes run in the order hillslope, wash-out, fluvial, isostasy, uplift,
\* report; only then is the clock advanced and are steady state and the end
\* condition checked; zeta_old is taken before the first process, and an
\* iteration starts only after the one before it has run to its end.
C11_ProcessesRunInFixedOrder ==
  /\ IsPrefix(h.order, IterationOrder)
  /\ h.prev \in {<<>>, IterationOrder}
  /\ pc = Processes[1] => (h.order = <<"zeta_old">> /\ zeta_old = Zeta)
  /\ (pc = "snapshot" /\ h.steps > 0) => h.order = IterationOrder

C11_Witness ==
  /\ pc = "write_report" /\ h.steps > 0 /\ hillslope /\ ~fluvial /\ isostasy
  /\ h.prev = IterationOrder
  /\ h.order = <<"zeta_old", "hillslope", "isostasy", "uplift">>
  /\ \E c \in Cells : root_depth[c] > 0

\* ---------------------------------------------------------------- C12
\* C12: every call of the nonlinear hillslope solver returns: its Picard loop
\* ends on the convergence test or on the iteration cap, whatever fields the
\* solves produce.
C12_PicardLoopEnds == (pc = "picard_do") ~> (pc = "idle")

\* ---------------------------------------------------------------- C13
\* the field z with 0 in place of the no-data value
Blanked(z) == [c \in Cells |-> IF z[c] = NoDataValue THEN 0 ELSE z[c]]

\* the positions of the unknowns whose cell holds data / holds no data
DataRows == {p \in 0..(sys.size - 1) : h.pre[CellAt(p, sys.dimension)] # NoDataValue}
NoDataRows == (0..(sys.size - 1)) \ DataRows

\* C13: through a hillslope diffusion step a cell that holds the no-data value
\* keeps it: repack_vector does not write the cell, and its value does not
\* enter the equation of any other cell, neither through a coefficient of
\* the matrix nor through the right-hand side.
C13_NoDataCellsAreLeftAlone ==
  /\ pc = "stepped" =>
       \A c \in Cells : h.pre[c] = NoDataValue =>
          (c \notin h.written /\ Zeta[c] = NoDataValue)
  /\ (pc = "solve" /\ ~nonlinear) =>
       /\ \A p \in DataRows : \A q \in NoDataRows : sys.matrix[<<p, q>>] = 0
       /\ \A p \in DataRows :
            sys.data_vector[p]
              = build_fd_vector(Blanked(h.pre), sys.dimension, sys.size)[p]

\* ---------------------------------------------------------------- C14
\* C14: with the critical-slope term removed (1 / S_c^2 = 0) the system the
\* nonlinear solver assembles in its first pass (generate_fv_matrix,
\* build_fv_vector) is, coefficient for coefficient and right-hand side for
\* right-hand side, the system the linear solver assembles (generate_fd_matrix,
\* build_fd_vector) for the same D, time step, grid and boundary codes.
C14_SameSystemWithoutCriticalSlope ==
  (pc = "solve" /\ nonlinear /\ inv_S_c_squared = 0)
    => /\ sys.matrix = generate_fd_matrix(sys.dimension, sys.size, sys.periodic)
       /\ sys.data_vector = build_fd_vector(Zeta, sys.dimension, sys.size)

\* ---------------------------------------------------------------- C15
\* C15: with slope exponent n = 1 and erodibility K = 0 in the constant K
\* mode, one call of fluvial_incision leaves every cell at the elevation it
\* had before the call, whatever the flow network.
C15_NoErodibilityNoIncision ==
  (pc = "stepped" /\ h.op = "fluvial_incision" /\ n = 1 /\ K_mode = 0
     /\ K_fluv = 0)
    => Zeta = h.pre

C15_Witness ==
  /\ pc = "stepped" /\ h.op = "fluvial_incision" /\ n = 1 /\ K_mode = 0
  /\ K_fluv = 0 /\ Zeta = h.pre
  /\ \E c \in Cells : h.r[c] # c /\ h.pre[h.r[c]] < h.pre[c]

\* ---------------------------------------------------------------- C16
\* C16: Airy_isostasy keeps, at every cell, the sum of elevation and root
\* depth, and a second application with no change in between leaves the
\* elevation field and the root-depth field as the first one left them.
C16_AiryConservesLoadAndIsIdempotent ==
  h.op = "Airy_isostasy"
    => /\ \A c \in Cells : Zeta[c] + root_depth[c] = h.pre[c] + h.pre_root[c]
       /\ h.before = "Airy_isostasy" => (Zeta = h.pre /\ root_depth = h.pre_root)

C16_Witness ==
  /\ h.op = "Airy_isostasy" /\ h.before = "Airy_isostasy"
  /\ Zeta = h.pre /\ root_depth = h.pre_root
  /\ \E c \in Cells : root_depth[c] > 0 /\ Zeta[c] > 0

\* ---------------------------------------------------------------- C18
\* C18: after any sequence of steps with isostasy on, a flexural isostasy
\* step applies no correction on the fixed-elevation edges: every cell on an
\* edge coded 'b' has the elevation it had before the step and root depth 0.
C18_FlexureLeavesFixedEdgesAlone ==
  h.op = "flexural_isostasy_alt"
    => \A c \in Cells :
         is_base_level(c[1], c[2]) => (Zeta[c] = h.pre[c] /\ root_depth[c] = 0)

\* ---------------------------------------------------------------- C17
\* wash_out is switched on
WashOutActive == threshold_drainage >= 0 /\ hillslope /\ fluvial

\* C17: wash_out changes no cell unless threshold_drainage >= 0 and both the
\* hillslope and the fluvial component are on; when it is on, exactly the
\* cells whose contributing drainage area exceeds threshold_drainage are set
\* to their start-of-step elevation zeta_old, and every other cell is left as
\* it was.
C17_WashOutResetsChannelCells ==
  (pc = "stepped" /\ h.op = "wash_out")
    => IF WashOutActive
       THEN \A c \in Cells :
              Zeta[c] = IF contributing_pixels(h.r, c) * DataResolution
                             * DataResolution > threshold_drainage
                        THEN zeta_old[c] ELSE h.pre[c]
       ELSE Zeta = h.pre

C17_Witness ==
  /\ pc = "stepped" /\ h.op = "wash_out" /\ WashOutActive
  /\ threshold_drainage = 1
  /\ \E c \in Cells : contributing_pixels(h.r, c) = 2
                        /\ Zeta[c] = zeta_old[c] /\ Zeta[c] # h.pre[c]
  /\ \E c \in Cells : contributing_pixels(h.r, c) = 1
                        /\ Zeta[c] = h.pre[c] /\ Zeta[c] # zeta_old[c]

\* ---------------------------------------------------------------- C19
\* the two opposing edges on the axis without fixed-elevation edges
OpposingEdges(dimension) == <<1 - dimension, 3 - dimension>>

OnePeriodicEdge(dimension) ==
  LET e == OpposingEdges(dimension)
  IN (boundary_conditions[e[1]] = "p") # (boundary_conditions[e[2]] = "p")

\* C19: when exactly one of the two opposing edges on the axis without
\* fixed-elevation edges is coded periodic (and the model is not quiet),
\* interpret_boundary returns with periodic = true and has printed the
\* asymmetry warning, whichever of the two edges is the periodic one.
C19_OnePeriodicEdgeIsWarnedAbout ==
  (pc = "assemble" /\ OnePeriodicEdge(sys.dimension) /\ ~quiet)
    => sys.periodic /\ sys.warned

\* ---------------------------------------------------------------- C20
\* C20: the first run_components phase of reach_steady_state, the one under
\* the periodic forcing it installs, does not end before the cyclic
\* steady-state check has passed, in every end-time mode (mode 0 included).
C20_FirstPhaseEndsAtSteadyState ==
  (api = "reach_steady_state_1" /\ pc = "return") => initial_steady_state

\* ---------------------------------------------------------------- C21
\* C21: nothing is recorded on the build-up to steady state: inside run_model,
\* reach_steady_state and run_model_from_steady_state, called in any order,
\* recording is false whenever initial_steady_state is false.
C21_NoRecordingBeforeSteadyState ==
  (api # "none" /\ ~initial_steady_state) => ~recording

\* ---------------------------------------------------------------- C22
\* the cells fluvial_incision updates: those with a receiver other than
\* themselves
Connected(r) == {c \in Cells : r[c] # c}

\* C22: in fluvial_incision with n = 1, on a stack that lists every receiver
\* before its donors, each connected cell is updated exactly once, its
\* receiver held its final elevation of this step when the cell was updated,
\* and the new elevation is (old own elevation + F * receiver's new
\* elevation) / (1 + F) with F = K A^m dt / dx; no other cell is written.
C22_ReceiverIsUpdatedFirst ==
  (pc = "stepped" /\ h.op = "fluvial_incision" /\ n = 1)
    => \A c \in Cells :
         IF c \in Connected(h.r)
         THEN /\ h.updates[c] = 1
              /\ h.seen[c] = Zeta[h.r[c]]
              /\ Zeta[c] = LinearIncision(h.r, c, h.pre[c], Zeta[h.r[c]])
         ELSE h.updates[c] = 0 /\ Zeta[c] = h.pre[c]

C22_Witness ==
  /\ pc = "stepped" /\ h.op = "fluvial_incision" /\ n = 1
  /\ \E c \in Connected(h.r) :
        /\ h.r[c] \in Connected(h.r)
        /\ Zeta[h.r[c]] # h.pre[h.r[c]]
        /\ h.seen[c] = Zeta[h.r[c]]
        /\ Zeta[c] # LinearIncision(h.r, c, h.pre[c], h.pre[h.r[c]])

\* ---------------------------------------------------------------- C23
\* C23: the Picard loop of soil_diffusion_fv_nonlinear has stopped only if no
\* cell changed by more than epsilon between the last two iterates, or
\* max_iter passes have been made.
C23_PicardStopsOnlyWhenConverged ==
  (pc = "idle" /\ calls > 0)
    => \/ \A c \in Cells : Abs(Zeta[c] - loop.last_iteration[c]) <= picard_epsilon
       \/ loop.iter >= max_iter

\* ---------------------------------------------------------------- C24
\* a step of the loop of run_components
LoopStep == pc \notin {"idle", "call", "return"}

\* C24: within one run_components call the steady-state marker is set once:
\* time_delay is assigned only in the step in which initial_steady_state
\* goes from false to true; endTime += time_delay is applied by
\* check_steady_state in that step only, at most once, and only in end-time
\* modes 1 and 3; initial_steady_state never returns to false; a later check
\* that passes changes neither time_delay nor endTime.
C24_SteadyStateMarkerIsSetOnce ==
  [][ LoopStep =>
        /\ initial_steady_state => initial_steady_state'
        /\ time_delay' # time_delay
             => ~initial_steady_state /\ initial_steady_state'
        /\ pc = "check_steady_state" =>
             /\ h'.marks <= 1
             /\ endTime' # endTime
                  => /\ endTime_mode \in {1, 3}
                     /\ ~initial_steady_state /\ initial_steady_state'
                     /\ h'.marks = 1
                     /\ endTime' = endTime + time_delay'
             /\ (initial_steady_state /\ steady_state')
                  => time_delay' = time_delay /\ endTime' = endTime
    ]_vars

C24_Witness ==
  /\ pc = "check_end_condition" /\ endTime_mode = 1
  /\ ~h.iss0 /\ initial_steady_state /\ steady_state /\ h.marks = 1
  /\ time_delay > 0 /\ current_time > time_delay
  /\ endTime = h.endTime0 + time_delay

\* ---------------------------------------------------------------- C25
\* the rolling window holds five per-cycle means
WindowFull ==
  /\ Len(erosion_cycle_record) = 5
  /\ \A i \in 1..5 : erosion_cycle_record[i] \notin {Unset, NaN}

\* C25: with cycle_steady_check on, check_steady_state declares steady state
\* only when five forcing cycles of the current run have completed (the cycle
\* counter, 1 at the start of the run, has reached 6), the window holds five
\* per-cycle means and each adjacent pair of them differs by at most
\* steady_state_tolerance.
C25_CyclicSteadyStateNeedsFiveCycles ==
  (pc = "check_end_condition" /\ cycle_steady_check /\ steady_state)
    => /\ cycle_number - 1 >= 5
       /\ WindowFull
       /\ \A i \in 1..4 :
            Abs(erosion_cycle_record[i] - erosion_cycle_record[i + 1])
              <= steady_state_tolerance

\* ---------------------------------------------------------------- C26
\* C26: in nonlinear_creep_timestep a pass that is the one after the
\* hundredth multiplies the tolerance by 10, restarts the iteration counter
\* from 0 and goes on from the current iterate; any other pass leaves the
\* tolerance alone; the loop is left exactly when the residual is at most
\* the current tolerance; and every call starts from the tolerance of
\* soil_diffusion_fv, whatever an earlier call relaxed it to.
C26_ToleranceIsRelaxedAndIterationResumes ==
  [][ /\ pc = "creep_do" =>
           /\ IF creep.iteration >= Max_iter
              THEN /\ creep'.iteration_tolerance = 10 * creep.iteration_tolerance
                   /\ creep'.iteration = 0
              ELSE /\ creep'.iteration_tolerance = creep.iteration_tolerance
                   /\ creep'.iteration = creep.iteration + 1
           /\ creep'.zeta = creep'.zeta_intermediate
           /\ pc' = "creep_done" <=> creep'.residual <= creep'.iteration_tolerance
      /\ (pc = "idle" /\ pc' = "creep_do")
           => /\ creep'.iteration_tolerance = static_iteration_tolerance
              /\ creep'.static_tolerance = static_iteration_tolerance
    ]_vars

C26_Witness ==
  /\ pc = "creep_done" /\ calls = 2
  /\ h.earlier >= 1 /\ h.relaxations >= 1
  /\ creep.iteration_tolerance > static_iteration_tolerance
  /\ creep.residual > static_iteration_tolerance
  /\ creep.zeta # h.pre

\* ---------------------------------------------------------------- C27
\* C27: when DAVE_nonlinear_creep_timestep has cut the time step after a
\* failed attempt, the attempt whose result is written to RasterData made at
\* least one solver iteration (with the reduced time step).
C27_AcceptedAttemptHasIterated ==
  (pc = "idle" /\ calls > 0 /\ h.failed > 0) => h.iterated

\* ---------------------------------------------------------------- C28
\* the column indices inserted into row p of the matrix being assembled
InsertedColumns(p) ==
  LET c   == CellAt(p, sys.dimension)
      ins == IF nonlinear
             THEN fv_row(Zeta, c[1], c[2], p, sys.dimension, sys.periodic)
             ELSE fd_row(p, sys.dimension, sys.periodic)
  IN {ins[k][1] : k \in DOMAIN ins}

\* the position of the unknown of cell c in the vectors
PosOf(c, dimension) ==
  IF dimension = 0 THEN (c[1] - 1) * NCols + c[2]
  ELSE c[1] * (NCols - 2) + (c[2] - 1)

\* the cells across the periodic edges from c: on the opposite edge of the
\* same row (dimension 0) or of the same column (dimension 1)
AcrossTheEdge(c, dimension) ==
  IF dimension = 0
  THEN (IF c[2] = 0 THEN {<<c[1], NCols - 1>>} ELSE {})
       \cup (IF c[2] = NCols - 1 THEN {<<c[1], 0>>} ELSE {})
  ELSE (IF c[1] = 0 THEN {<<NRows - 1, c[2]>>} ELSE {})
       \cup (IF c[1] = NRows - 1 THEN {<<0, c[2]>>} ELSE {})

\* C28: on every grid of at least three rows and three columns and with every
\* boundary configuration, each entry that generate_fd_matrix or
\* generate_fv_matrix inserts has its column index (and its row index) in
\* 0..size-1, and with periodic edges the row of a cell on such an edge has
\* an entry for the unknown of the cell on the opposite edge of the same row
\* or column.
C28_MatrixEntriesAreInRangeAndWrap ==
  pc = "solve"
    => \A p \in 0..(sys.size - 1) :
         /\ InsertedColumns(p) \subseteq 0..(sys.size - 1)
         /\ sys.periodic
              => \A d \in AcrossTheEdge(CellAt(p, sys.dimension), sys.dimension) :
                   PosOf(d, sys.dimension) \in InsertedColumns(p)

\* ---------------------------------------------------------------- C29
\* the north and south edges are both coded as fixed and the unknowns are
\* the interior rows
FixedNorthAndSouth ==
  /\ boundary_conditions[0] = "b"
  /\ boundary_conditions[2] = "b"
  /\ sys.dimension = 0

\* what the entry of the unknown at position p holds beyond the cell's own
\* elevation and the term of the north edge
SouthTerm(p) ==
  LET c == CellAt(p, sys.dimension)
  IN sys.data_vector[p] - 1000 * Zeta[c]
       - (IF c[1] = 1 THEN r_fd * Zeta[<<0, c[2]>>] ELSE 0)

\* C29: with fixed north and south edges the right-hand side of the linear
\* diffusion system treats the two edges alike: the entry of the unknown of
\* cell (i, j) holds r * elevation[NRows-1][j] when i = NRows-2 and no such
\* term otherwise, just as it holds r * elevation[0][j] when i = 1.
C29_SouthEdgeEntersLikeNorthEdge ==
  (pc = "solve" /\ ~nonlinear /\ FixedNorthAndSouth)
    => \A p \in 0..(sys.size - 1) :
         SouthTerm(p) = IF CellAt(p, sys.dimension)[1] = NRows - 2
                        THEN r_fd * Zeta[<<NRows - 1, CellAt(p, sys.dimension)[2]>>]
                        ELSE 0

\* ---------------------------------------------------------------- C30
\* one of the two opposing edges on the axis without fixed-elevation edges
\* is coded periodic
SomePeriodicEdge(dimension) ==
  \E k \in 1..2 : boundary_conditions[OpposingEdges(dimension)[k]] = "p"

\* C30: interpret_boundary determines its periodic output from the boundary
\* codes alone: on return periodic is true if at least one of the two
\* opposing edges is coded 'p' and false otherwise, whatever the caller's
\* variable held before the call.
C30_PeriodicFollowsBoundaryCodes ==
  pc = "assemble" => (sys.periodic <=> SomePeriodicEdge(sys.dimension))
====
